---- MODULE Spec2Model ----
(***************************************************************************)
(* Model of the asset manager of lib/assets.js (Manager): resolution of    *)
(* logical asset identifiers into content-addressed output paths, lazy     *)
(* compilation of the resolved assets on the first HTTP request, and the   *)
(* serialisation of concurrent requests through the compilingNow registry. *)
(*                                                                         *)
(* Representation of file names.  A path is a record                       *)
(*     [abs  |-> starts with "/",                                          *)
(*      dir  |-> directory part ("" when there is none),                   *)
(*      base |-> the basename as the sequence of its "-"-separated         *)
(*               segments, each segment a sequence of chunks]              *)
(* A chunk is a string: one hexadecimal digit ("0" .. "f"), an extension   *)
(* (".js") or an opaque word that is not a hexadecimal number ("main").    *)
(* So "asset-3f-main.js" is <<<<"asset">>, <<"3","f">>, <<"main",".js">>>> *)
(* and the empty string is <<<<>>>> (what "".split("-") gives).            *)
(***************************************************************************)
EXTENDS Integers, Sequences, FiniteSets, TLC

\* ------------------------------------------------------------------ bounds
MaxReq == 2          \* number of HTTP requests issued in one behaviour
MaxResolve == 2      \* number of assetPath calls in one behaviour
MaxEdits == 2        \* number of changes made to the source files in one behaviour
MaxRegister == 2     \* number of registerCompiler (registerTag) calls in one behaviour
MaxListed == 2       \* number of file names indexAssets lists for one compiled asset

\* ------------------------------------------------------- program constants
hashLength == 32     \* options.hashLength: the digest is cut to this many digits

\* --------------------------------------------------------------- sequences
Range(s) == {s[i] : i \in 1..Len(s)}

Drop(s, n) == IF Len(s) <= n THEN <<>> ELSE SubSeq(s, n + 1, Len(s))

Take(s, n) == IF Len(s) <= n THEN s ELSE SubSeq(s, 1, n)

None == <<>>

Some(x) == <<x>>

\* ------------------------------------------------------------------- names
HexDigits == <<"0", "1", "2", "3", "4", "5", "6", "7",
               "8", "9", "a", "b", "c", "d", "e", "f">>

IsHexSeg(seg) == Len(seg) >= 1 /\ \A i \in 1..Len(seg) : seg[i] \in Range(HexDigits)

EmptyBase == << <<>> >>

Rel(dir, base) == [abs |-> FALSE, dir |-> dir, base |-> base]

Url(dir, base) == [abs |-> TRUE, dir |-> dir, base |-> base]

\* String.prototype.slice(1) applied to a path that starts with "/".
Slice1(p) == [p EXCEPT !.abs = FALSE]

\* path.join(root, p): the location under the asset root of a served path.
UnderRoot(p) == [p EXCEPT !.abs = FALSE]

\* path.join(dir, base) for a directory and a basename; joining the empty
\* basename gives the directory itself.
PathJoin(abs, dir, base) ==
    IF base = EmptyBase /\ dir # ""
    THEN [abs |-> abs, dir |-> "", base |-> << <<dir>> >>]
    ELSE IF base = EmptyBase /\ ~abs
    THEN [abs |-> FALSE, dir |-> "", base |-> << <<".">> >>]
    ELSE [abs |-> abs, dir |-> dir, base |-> base]

\* this.options.assetPrefix, split at its dashes
VARIABLE assetPrefix

\* defaultOptions.assetPrefix (line 358)
defaultAssetPrefix == << <<"asset">> >>

getCompiledAssetFilename(filename, hash) == assetPrefix \o <<hash>> \o filename

isCompiledAssetNever(file) == FALSE

isCompiledAsset(file) ==
    LET k == Len(assetPrefix)
    IN  /\ Len(file.base) >= k + 2
        /\ SubSeq(file.base, 1, k) = assetPrefix
        /\ IsHexSeg(file.base[k + 1])

getCanonicalPath(file) ==
    LET rest == Drop(file.base, 2)
        canonical == IF rest = <<>> THEN EmptyBase ELSE rest
    IN  PathJoin(file.abs, file.dir, canonical)

\* ------------------------------------------------------------------ hashes
\* A digest is a sequence of two hexadecimal digits.  The digest
\* function is a small polynomial hash: deterministic, sensitive to the
\* order of its input, and (as every digest) not injective.
ToDigest(n) == <<HexDigits[((n \div 16) % 16) + 1], HexDigits[(n % 16) + 1]>>

DigitCode(ch) == CHOOSE i \in 1..16 : HexDigits[i] = ch

RECURSIVE MixDigits(_, _)
MixDigits(h, digits) ==
    IF digits = <<>> THEN h
    ELSE MixDigits((h * 31 + DigitCode(Head(digits))) % 256, Tail(digits))

\* Folds the string hashes.join(":") into a number, left to right.
RECURSIVE MixJoined(_, _)
MixJoined(h, hashes) ==
    IF hashes = <<>> THEN h
    ELSE LET h1 == MixDigits(h, Head(hashes))
             h2 == IF Len(hashes) > 1 THEN (h1 * 31 + 17) % 256 ELSE h1
         IN  MixJoined(h2, Tail(hashes))

hashString(hashes) == ToDigest(MixJoined(7, hashes))

hashFile(content) == ToDigest((content * 37 + 11) % 256)

\* ----------------------------------------------------------------- options
\* The options of one asset()/assetUrl()/assetPath() call.  A property that
\* is not given is None, a property that is given is Some(value).
Opts(include, dependencies, attributes) ==
    [include |-> include, dependencies |-> dependencies, attributes |-> attributes,
     prefix |-> None]

\* The options o with the URL prefix p given.
WithPrefix(o, p) == [o EXCEPT !.prefix = Some(p)]

NoOptions == Opts(None, None, None)

\* utils.mergeDefaults(utils.copy(options), existingOptions): the options of
\* the call laid over the stored ones; attribute maps are merged key by key.
MergeAttributes(new, old) ==
    IF new = None THEN old
    ELSE IF old = None THEN new
    ELSE Some([k \in DOMAIN new[1] \cup DOMAIN old[1] |->
                 IF k \in DOMAIN new[1] THEN new[1][k] ELSE old[1][k]])

mergeDefaults(options, existingOptions) ==
    [include      |-> IF options.include # None THEN options.include
                      ELSE existingOptions.include,
     dependencies |-> IF options.dependencies # None THEN options.dependencies
                      ELSE existingOptions.dependencies,
     attributes   |-> MergeAttributes(options.attributes, existingOptions.attributes),
     prefix       |-> IF options.prefix # None THEN options.prefix
                      ELSE existingOptions.prefix]

RECURSIVE stripDuplicates(_)
stripDuplicates(s) ==
    IF s = <<>> THEN <<>>
    ELSE LET front == stripDuplicates(SubSeq(s, 1, Len(s) - 1))
             last == s[Len(s)]
         IN  IF last \in Range(front) THEN front ELSE Append(front, last)

\* -------------------------------------------------------------- extensions
Extensions == {".js", ".css", ".less", ".min", ".txt"}

LastSeg(name) == name.base[Len(name.base)]

\* path.extname
extname(name) ==
    IF Len(LastSeg(name)) >= 2 /\ LastSeg(name)[Len(LastSeg(name))] \in Extensions
    THEN LastSeg(name)[Len(LastSeg(name))]
    ELSE ""

\* The segment seg without its extension ext, followed by newExt
ReplaceExt(seg, ext, newExt) ==
    (IF ext # "" THEN SubSeq(seg, 1, Len(seg) - 1) ELSE seg)
        \o (IF newExt # "" THEN <<newExt>> ELSE <<>>)

\* path.basename(name, ext) + newExt, in the directory of name
WithExtension(name, ext, newExt) ==
    [name EXCEPT !.base = [name.base EXCEPT ![Len(name.base)] =
                              ReplaceExt(LastSeg(name), ext, newExt)]]

\* String.prototype.toLowerCase, chunk by chunk
LowerChunk(ch) ==
    CASE ch = "MAIN" -> "main"
      [] ch = "LIB" -> "lib"
      [] ch = ".JS" -> ".js"
      [] ch = ".TXT" -> ".txt"
      [] ch = "TXT" -> "txt"
      [] OTHER -> ch

RECURSIVE LowerSegment(_)
LowerSegment(seg) ==
    IF seg = <<>> THEN <<>> ELSE <<LowerChunk(Head(seg))>> \o LowerSegment(Tail(seg))

RECURSIVE LowerBase(_)
LowerBase(base) ==
    IF base = <<>> THEN <<>> ELSE <<LowerSegment(Head(base))>> \o LowerBase(Tail(base))

\* utils.toExtname: an extension in lower case, with the dot in front.
toExtname(ext) ==
    LET lower == LowerChunk(ext)
    IN  IF lower = "txt" THEN ".txt" ELSE lower

toLowerCase(name) == [abs |-> name.abs, dir |-> name.dir, base |-> LowerBase(name.base)]

\* ------------------------------------------------------------------- state
VARIABLES
    files,                 \* source files on disk: name -> [content, mtime]
    built,                 \* compiled files on disk: name -> [complete, contents]
    unlinks,               \* fs.unlink calls issued and not yet carried out
    assets,                \* this.assets, in insertion order
    compiledAssets,        \* this.compiledAssets: canonical name -> file names
    pendingAssets,         \* this.pendingAssets: identifier -> entry
    compilingNow,          \* this.compilingNow: canonical name -> waiting requests
    compilers,             \* this.options.compilers: extension -> compiler
    reverseCompilerIndex,  \* this.reverseCompilerIndex: output extension -> compilers
    req,                   \* the HTTP requests and their position in the middleware chain
    calls,                 \* the assetPath calls made so far (most recent last, at most two)
    runs,                  \* the invocations of compileAsset, in order
    nResolve,              \* number of assetPath calls made
    manifest,              \* the manifest file: name -> [mtime, hash]
    urlPrefix,             \* this.options.urlPrefix (None when it is '')
    tags,                  \* the extensions this.options.tags has a formatter for
    separateBundles,       \* this.options.separateBundles
    compress,              \* this.options.compress
    wrapJavascript,        \* this.options.wrapJavascript
    hist                   \* what happened to the files and the compiler registry so far

vars == <<files, built, unlinks, assets, compiledAssets, pendingAssets, compilingNow,
          compilers, reverseCompilerIndex, req, calls, runs, nResolve,
          manifest, urlPrefix, tags, separateBundles, compress, wrapJavascript,
          assetPrefix, hist>>

optionVars == <<urlPrefix, tags, separateBundles, compress, wrapJavascript, assetPrefix>>

\* What the request handlers and assetPath neither read for writing nor write.
frame == <<manifest, optionVars, hist>>

diskVars == <<files, built, unlinks>>

managerVars == <<assets, compiledAssets, pendingAssets, compilers, reverseCompilerIndex>>

\* ------------------------------------------------------------ the asset map
assetKeys == [i \in 1..Len(assets) |-> assets[i].key]

hasAsset(key) == \E i \in 1..Len(assets) : assets[i].key = key

getAsset(key) == assets[CHOOSE i \in 1..Len(assets) : assets[i].key = key]

\* ------------------------------------------------------------------- globs
GlobChars == {"*", "?", "{", "}"}

isGlob(entry) ==
    \E i \in 1..Len(entry.base) : \E j \in 1..Len(entry.base[i]) :
        entry.base[i][j] \in GlobChars

\* minimatch for the patterns of the model: "*<ext>" matches every file of
\* the root directory that ends in <ext>; a pattern without "*" matches itself.
minimatch(filename, pattern) ==
    IF pattern.base[1][1] = "*" /\ Len(pattern.base) = 1 /\ Len(pattern.base[1]) = 2
    THEN /\ filename.dir = pattern.dir
         /\ Len(LastSeg(filename)) >= 2
         /\ LastSeg(filename)[Len(LastSeg(filename))] = pattern.base[1][2]
    ELSE filename = pattern

RECURSIVE expandGlobs(_)
expandGlobs(globs) ==
    IF globs = <<>> THEN [ok |-> TRUE, filenames |-> <<>>, error |-> <<>>]
    ELSE LET g == Head(globs)
             matched == SelectSeq(assetKeys, LAMBDA f : minimatch(f, g))
             rest == expandGlobs(Tail(globs))
         IN  IF isGlob(g) /\ matched = <<>>
             THEN [ok |-> FALSE, filenames |-> <<>>,
                   error |-> <<"No assets matched the pattern", g>>]
             ELSE IF ~rest.ok THEN rest
             ELSE [rest EXCEPT !.filenames = (IF isGlob(g) THEN matched ELSE <<g>>) \o @]

\* --------------------------------------------------------------- assetPath
\* Lines 727-733: an identifier with a compiler extension is renamed to the
\* compiler's output extension.
RemapIdentifier(identifier) ==
    LET ext == extname(identifier)
    IN  IF ext # "" /\ ext \in DOMAIN compilers
        THEN WithExtension(identifier, ext, compilers[ext].output)
        ELSE identifier

LocateAssetTriedUnnamed(filename0) ==
    LET filename == toLowerCase(filename0)
        ext == extname(filename)
        cs == IF ext \in DOMAIN reverseCompilerIndex THEN reverseCompilerIndex[ext] ELSE <<>>
        cand == [j \in 1..Len(cs) |-> WithExtension(filename, ext, cs[j].extname)]
        hits == {j \in 1..Len(cs) : cand[j] # filename /\ hasAsset(cand[j])}
        first == CHOOSE j \in hits : \A k \in hits : j <= k
    IN  IF hasAsset(filename) THEN [found |-> TRUE, name |-> filename, tried |-> <<>>]
        ELSE IF hits # {} THEN [found |-> TRUE, name |-> cand[first], tried |-> <<>>]
        ELSE [found |-> FALSE, name |-> filename, tried |-> <<>>]

\* Lines 772-812, one iteration: the asset record to use for a file name,
\* falling back to the source file of a compiler that produces its extension.
LocateAsset(filename0) ==
    LET filename == toLowerCase(filename0)
        ext == extname(filename)
        cs == IF ext \in DOMAIN reverseCompilerIndex THEN reverseCompilerIndex[ext] ELSE <<>>
        cand == [j \in 1..Len(cs) |-> WithExtension(filename, ext, cs[j].extname)]
        hits == {j \in 1..Len(cs) : cand[j] # filename /\ hasAsset(cand[j])}
        first == CHOOSE j \in hits : \A k \in hits : j <= k
    IN  IF hasAsset(filename) THEN [found |-> TRUE, name |-> filename, tried |-> <<>>]
        ELSE IF hits # {} THEN [found |-> TRUE, name |-> cand[first], tried |-> <<>>]
        ELSE [found |-> FALSE, name |-> filename,
              tried |-> SelectSeq(cand, LAMBDA c : c # filename)]

OutputHashWithMtime(assetRecords, dependencyRecords) ==
    LET all == assetRecords \o dependencyRecords
    IN  Take(hashString([i \in 1..Len(all) |->
                           all[i].hash \o <<HexDigits[(all[i].mtime % 16) + 1]>>]),
             hashLength)

RECURSIVE SumOfHashes(_)
SumOfHashes(records) ==
    IF records = <<>> THEN 0
    ELSE (MixDigits(7, Head(records).hash) + SumOfHashes(Tail(records))) % 256

OutputHashUnordered(assetRecords, dependencyRecords) ==
    Take(ToDigest(SumOfHashes(assetRecords \o dependencyRecords)), hashLength)

OutputHashOfConstituents(assetRecords, dependencyRecords) ==
    Take(hashString([i \in 1..Len(assetRecords) |-> assetRecords[i].hash]), hashLength)

\* Lines 836-841: the cache-busting hash of the constituents and dependencies.
OutputHash(assetRecords, dependencyRecords) ==
    LET all == assetRecords \o dependencyRecords
    IN  Take(hashString([i \in 1..Len(all) |-> all[i].hash]), hashLength)

\* Lines 843-847: the name of the output file and the path it is served at.
OutputFilename(identifier, hash) ==
    Rel(identifier.dir, getCompiledAssetFilename(identifier.base, hash))

OutputPath(identifier, hash) ==
    Url(identifier.dir, getCompiledAssetFilename(identifier.base, hash))

KeepExisting(existing, assetFilename) == existing

\* Lines 856-864: the files listed for the identifier are filtered; the file
\* of the current hash stays, fs.unlink is called for every other one.
FilterExisting(existing, assetFilename) ==
    SelectSeq(existing, LAMBDA f : f = assetFilename)

UnlinkedOf(existing, assetFilename) == {f \in Range(existing) : f # assetFilename}

\* Lines 848-853: the entry stored for the identifier.
PendingEntry(path, assetRecords, dependencyRecords, options) ==
    [path |-> path, assets |-> assetRecords, dependencies |-> dependencyRecords,
     options |-> options]

ResolveFailedForgets(identifier, err) ==
    [out |-> None, error |-> err, identifier |-> identifier,
     pending |-> [k \in DOMAIN pendingAssets \ {identifier} |-> pendingAssets[k]],
     compiled |-> compiledAssets, unlinked |-> {}]

\* Lines 757-760, 766-769, 805-809 and 828-832: the error is emitted and ''
\* is returned before anything is stored or removed.
ResolveFailed(identifier, err) ==
    [out |-> None, error |-> err, identifier |-> identifier,
     pending |-> pendingAssets, compiled |-> compiledAssets, unlinked |-> {}]

\* The body of assetPath once the identifier and the options are fixed
\* (lines 743-868).  The result names the returned path (None for ""), the
\* error emitted, and the state the call leaves behind.
ResolveDefined(identifier, options) ==
    LET expanded == IF options.include # None THEN expandGlobs(options.include[1])
                    ELSE [ok |-> TRUE, filenames |-> <<identifier>>, error |-> <<>>]
        filenames == stripDuplicates(expanded.filenames)
        located == [i \in 1..Len(filenames) |-> LocateAsset(filenames[i])]
        missing == {i \in 1..Len(filenames) : ~located[i].found}
        firstMissing == CHOOSE i \in missing : \A k \in missing : i <= k
        assetRecords == [i \in 1..Len(filenames) |-> getAsset(located[i].name)]
        depExpanded == IF options.dependencies # None
                       THEN expandGlobs(options.dependencies[1])
                       ELSE [ok |-> TRUE, filenames |-> <<>>, error |-> <<>>]
        depNames == stripDuplicates(depExpanded.filenames)
        depMissing == {i \in 1..Len(depNames) : ~hasAsset(depNames[i])}
        firstDepMissing == CHOOSE i \in depMissing : \A k \in depMissing : i <= k
        dependencyRecords == [i \in 1..Len(depNames) |-> getAsset(depNames[i])]
        hash == OutputHash(assetRecords, dependencyRecords)
        assetFilename == OutputFilename(identifier, hash)
        outputPath == OutputPath(identifier, hash)
        existing == IF identifier \in DOMAIN compiledAssets
                    THEN compiledAssets[identifier] ELSE <<>>
        failed(err) == ResolveFailed(identifier, err)
    IN  IF ~expanded.ok THEN failed(expanded.error)
        ELSE IF filenames = <<>> THEN failed(<<"No assets were defined">>)
        ELSE IF missing # {}
             THEN failed(<<"Asset could not be found", located[firstMissing].name,
                           located[firstMissing].tried>>)
        ELSE IF ~depExpanded.ok THEN failed(depExpanded.error)
        ELSE IF depMissing # {}
             THEN failed(<<"Failed to locate", depNames[firstDepMissing]>>)
        ELSE [out |-> Some(outputPath), error |-> <<>>, identifier |-> identifier,
              pending |-> [k \in DOMAIN pendingAssets \cup {identifier} |->
                             IF k = identifier
                             THEN PendingEntry(outputPath, assetRecords,
                                               dependencyRecords, options)
                             ELSE pendingAssets[k]],
              compiled |-> IF identifier \in DOMAIN compiledAssets
                           THEN [compiledAssets EXCEPT ![identifier] =
                                    FilterExisting(existing, assetFilename)]
                           ELSE compiledAssets,
              unlinked |-> UnlinkedOf(existing, assetFilename)]

\* Lines 735-741: a call for an identifier that is already defined lays its
\* options over the stored ones and calls assetPath again with force set; the
\* second call renames the identifier once more (lines 727-733).
ForcedIdentifier(identifier) == RemapIdentifier(toLowerCase(identifier))

assetPath(identifier0, options0) ==
    LET renamed == RemapIdentifier(toLowerCase(identifier0))
    IN  IF renamed \in DOMAIN pendingAssets
        THEN ResolveDefined(ForcedIdentifier(renamed),
                            mergeDefaults(options0, pendingAssets[renamed].options))
        ELSE ResolveDefined(renamed, options0)

\* ---------------------------------------------------------------- requests
ReqIds == 1..MaxReq

EmptyString == Rel("", EmptyBase)

\* JavaScript truthiness of request._canonicalAssetName
Truthy(name) == name # None /\ name[1] # EmptyString

\* Names every plain JavaScript object inherits from Object.prototype:
\* obj[key] and (key in obj) find them although they are no own keys.
ObjectPrototypeKeys == {Rel("", << <<"constructor">> >>)}

JsIn(key, obj) == key \in DOMAIN obj \/ key \in ObjectPrototypeKeys

IdleRequest ==
    [pc |-> "idle", url |-> Url("", EmptyBase), name |-> None, found |-> FALSE,
     status |-> 0, err |-> <<>>, body |-> None, entry |-> None, idx |-> 0,
     contents |-> <<>>, text |-> 0, run |-> 0, wait |-> 0, early |-> FALSE,
     existed |-> FALSE, wrapped |-> FALSE, compressed |-> FALSE, wrote |-> FALSE]

\* express.static: is there a file to serve at the requested path?
FileAt(url) ==
    LET f == UnderRoot(url)
    IN  IF f \in DOMAIN built THEN Some(built[f])
        ELSE IF f \in DOMAIN files
        THEN Some([complete |-> TRUE, wrapped |-> FALSE, compressed |-> FALSE,
                   contents |-> <<[name |-> f, text |-> files[f].content,
                                   compiled |-> FALSE]>>])
        ELSE None

\* Has some pipeline invocation for this canonical name already finished?
Finished(canonical) ==
    \E i \in 1..Len(runs) : runs[i].canonical = canonical /\ runs[i].outcome # "running"

\* The index in runs of the invocation for this canonical name that has not
\* finished, 0 when there is none.
Running(canonical) ==
    LET live == {i \in 1..Len(runs) :
                   runs[i].canonical = canonical /\ runs[i].outcome = "running"}
    IN  IF live = {} THEN 0 ELSE CHOOSE i \in live : \A j \in live : j <= i

\* Is the path one the manager has handed out?
IsOutputPath(url) == \E k \in DOMAIN pendingAssets : pendingAssets[k].path = url

\* Has the output file at the path been written completely?
Written(url) == UnderRoot(url) \in DOMAIN built /\ built[UnderRoot(url)].complete

\* A request is sent.  Its record notes whether it asks for an output path
\* whose file does not exist yet before any compilation of it has finished
\* (early), and whether it asks for an output path whose file is there
\* (existed).
Issue(r, url) ==
    /\ req[r].pc = "idle"
    /\ IF r = 1 THEN TRUE ELSE req[r - 1].pc # "idle"
    /\ req' = [req EXCEPT ![r] = [IdleRequest EXCEPT
                  !.pc = "static1", !.url = url,
                  !.early = (IsOutputPath(url) /\ UnderRoot(url) \notin DOMAIN built
                             /\ ~Finished(Slice1(getCanonicalPath(url)))),
                  !.existed = (IsOutputPath(url) /\ Written(url))]]
    /\ UNCHANGED <<frame, diskVars, managerVars, compilingNow, calls, runs, nResolve>>

\* Line 433, the first static middleware: the lookup of the file ...
StaticLookup(r) ==
    /\ req[r].pc = "static1"
    /\ req' = [req EXCEPT ![r].pc = "static1cb", ![r].found = (FileAt(req[r].url) # None)]
    /\ UNCHANGED <<frame, diskVars, managerVars, compilingNow, calls, runs, nResolve>>

\* ... and its callback when the file was found: the file is served.
StaticServe(r) ==
    /\ req[r].pc = "static1cb"
    /\ req[r].found /\ FileAt(req[r].url) # None
    /\ req' = [req EXCEPT ![r].pc = "done", ![r].status = 200,
                          ![r].body = FileAt(req[r].url)]
    /\ UNCHANGED <<frame, diskVars, managerVars, compilingNow, calls, runs, nResolve>>

NotServedEvenIfFound(r) == req[r].pc = "static1cb"

\* The first static middleware found nothing to serve and calls next().
NotServed(r) ==
    /\ req[r].pc = "static1cb"
    /\ ~(req[r].found /\ FileAt(req[r].url) # None)

Canonical(r) == Slice1(getCanonicalPath(req[r].url))

IsCompilingNever(canonical) == FALSE

\* Line 457: canonical in self.compilingNow
IsCompiling(canonical) == JsIn(canonical, compilingNow)

\* Lines 448-456: the compile middleware passes the request on; the resume
\* middleware (lines 470-473) passes it on as well, to the second static
\* middleware.
PassOn(r) ==
    /\ NotServed(r)
    /\ \/ ~isCompiledAsset(req[r].url)
       \/ ~JsIn(Canonical(r), pendingAssets)
    /\ req' = [req EXCEPT ![r].pc = "static2"]
    /\ UNCHANGED <<frame, diskVars, managerVars, compilingNow, calls, runs, nResolve>>

\* Lines 457-460: the first request for a canonical name starts compileAsset,
\* which issues the read of the first constituent (lines 507-512).
StartCompile(r) ==
    /\ NotServed(r)
    /\ isCompiledAsset(req[r].url)
    /\ Canonical(r) \in DOMAIN pendingAssets
    /\ ~IsCompiling(Canonical(r))
    /\ compilingNow' = [k \in DOMAIN compilingNow \cup {Canonical(r)} |->
                          IF k = Canonical(r) THEN <<>> ELSE compilingNow[k]]
    /\ runs' = Append(runs, [canonical |-> Canonical(r), by |-> r, outcome |-> "running",
                             fileThere |-> (FileAt(req[r].url) # None)])
    /\ req' = [req EXCEPT ![r].pc = "reading", ![r].name = Some(Canonical(r)),
                          ![r].entry = Some(pendingAssets[Canonical(r)]),
                          ![r].idx = 1, ![r].contents = <<>>,
                          ![r].run = Len(runs) + 1]
    /\ UNCHANGED <<frame, diskVars, managerVars, calls, nResolve>>

\* Lines 461-463: a request for a canonical name that is compiling is queued.
Enqueue(r) ==
    /\ NotServed(r)
    /\ isCompiledAsset(req[r].url)
    /\ Canonical(r) \in DOMAIN pendingAssets
    /\ IsCompiling(Canonical(r))
    /\ compilingNow' = [compilingNow EXCEPT ![Canonical(r)] = Append(@, r)]
    /\ req' = [req EXCEPT ![r].pc = "queued", ![r].wait = Running(Canonical(r))]
    /\ UNCHANGED <<frame, diskVars, managerVars, calls, runs, nResolve>>

\* Lines 453-463 for a canonical name that Object.prototype defines:
\* pendingAssets[canonical] is truthy, (canonical in compilingNow) is true and
\* compilingNow[canonical].push is not a function.  Express catches the
\* TypeError and runs the error middleware (lines 482-485), which hands it on.
ThrowInMiddleware(r) ==
    /\ NotServed(r)
    /\ isCompiledAsset(req[r].url)
    /\ Canonical(r) \notin DOMAIN pendingAssets
    /\ Canonical(r) \in ObjectPrototypeKeys
    /\ req' = [req EXCEPT ![r].pc = "done", ![r].status = 500,
                          ![r].err = <<"TypeError">>]
    /\ UNCHANGED <<frame, diskVars, managerVars, compilingNow, calls, runs, nResolve>>

\* Lines 466-479: compileAsset called next(); the resume middleware releases
\* the requests queued for the canonical name.
Resumed(r) ==
    IF ~Truthy(req[r].name) THEN [req EXCEPT ![r].pc = "static2"]
    ELSE [q \in ReqIds |->
            IF q = r \/ q \in Range(compilingNow[req[r].name[1]])
            THEN [req[q] EXCEPT !.pc = "static2"]
            ELSE req[q]]

FailedButQueuedResumed(r, err) ==
    IF ~Truthy(req[r].name)
    THEN [req EXCEPT ![r].pc = "done", ![r].status = 500, ![r].err = err]
    ELSE [q \in ReqIds |->
            IF q = r THEN [req[q] EXCEPT !.pc = "done", !.status = 500, !.err = err]
            ELSE IF q \in Range(compilingNow[req[r].name[1]])
            THEN [req[q] EXCEPT !.pc = "static2"]
            ELSE req[q]]

\* Lines 481-493: compileAsset called next(err); the error middleware fails
\* the requests queued for the canonical name with the same error.
Failed(r, err) ==
    IF ~Truthy(req[r].name)
    THEN [req EXCEPT ![r].pc = "done", ![r].status = 500, ![r].err = err]
    ELSE [q \in ReqIds |->
            IF q = r \/ q \in Range(compilingNow[req[r].name[1]])
            THEN [req[q] EXCEPT !.pc = "done", !.status = 500, !.err = err]
            ELSE req[q]]

\* Lines 476 and 488: delete self.compilingNow[canonical]
Released(r) ==
    IF ~Truthy(req[r].name) THEN compilingNow
    ELSE [k \in DOMAIN compilingNow \ {req[r].name[1]} |-> compilingNow[k]]

RunEnded(r, outcome) == [runs EXCEPT ![req[r].run].outcome = outcome]

\* ------------------------------------------------------------ compileAsset
\* The extensions the compressors of lib/compressors.js cover (line 367).
compressors == {".js", ".css"}

\* Line 537: the text of a JavaScript output is put into options.javascriptIIFE.
WrapsEverything(path) == wrapJavascript

Wraps(path) == extname(path) = ".js" /\ wrapJavascript

\* Line 540: the text is handed to the compressor of the output extension.
Compresses(path) == compress /\ extname(path) \in compressors

Constituent(r) == req[r].entry[1].assets[req[r].idx]

AdvanceToTheWrite(r, piece) ==
    [req EXCEPT ![r].contents = Append(@, piece),
                ![r].wrapped = Wraps(req[r].entry[1].path),
                ![r].pc = "writing"]

\* Lines 520-521 and 529-530: the text of one constituent is pushed and
\* async.eachSeries goes on to the next constituent, or, after the last one,
\* to the final callback (lines 533-543), which issues the write.
Advance(r, piece) ==
    IF req[r].idx < Len(req[r].entry[1].assets)
    THEN [req EXCEPT ![r].contents = Append(@, piece), ![r].idx = @ + 1,
                     ![r].pc = "reading"]
    ELSE [req EXCEPT ![r].contents = Append(@, piece),
                     ![r].wrapped = Wraps(req[r].entry[1].path),
                     ![r].pc = IF Compresses(req[r].entry[1].path) THEN "compressing"
                               ELSE "writing"]

\* Lines 512-522: fs.readFile of the next constituent succeeds.
ReadFile(r) ==
    /\ req[r].pc = "reading"
    /\ Constituent(r).name \in DOMAIN files
    /\ LET name == Constituent(r).name
           text == files[name].content
       IN  req' = IF extname(name) \in DOMAIN compilers
                  THEN [req EXCEPT ![r].pc = "compiling", ![r].text = text]
                  ELSE Advance(r, [name |-> name, text |-> text, compiled |-> FALSE])
    /\ UNCHANGED <<frame, diskVars, managerVars, compilingNow, calls, runs, nResolve>>

\* Lines 513-517: fs.readFile fails; the error ends the series and reaches
\* the error middleware through next(err).
ReadFileError(r) ==
    /\ req[r].pc = "reading"
    /\ Constituent(r).name \notin DOMAIN files
    /\ req' = Failed(r, <<"Failed to read file", Constituent(r).name>>)
    /\ compilingNow' = Released(r)
    /\ runs' = RunEnded(r, "failed")
    /\ UNCHANGED <<frame, diskVars, managerVars, calls, nResolve>>

\* Lines 523-531: the compiler registered for the extension yields its text.
CompilerDone(r) ==
    /\ req[r].pc = "compiling"
    /\ req' = Advance(r, [name |-> Constituent(r).name, text |-> req[r].text,
                          compiled |-> TRUE])
    /\ UNCHANGED <<frame, diskVars, managerVars, compilingNow, calls, runs, nResolve>>

\* Lines 524-528: the compiler yields a failure.
CompilerError(r) ==
    /\ req[r].pc = "compiling"
    /\ req' = Failed(r, <<"Failed to compile file", Constituent(r).name>>)
    /\ compilingNow' = Released(r)
    /\ runs' = RunEnded(r, "failed")
    /\ UNCHANGED <<frame, diskVars, managerVars, calls, nResolve>>

\* Lines 540-547: the compressor yields its text.
CompressDone(r) ==
    /\ req[r].pc = "compressing"
    /\ req' = [req EXCEPT ![r].compressed = TRUE, ![r].pc = "writing"]
    /\ UNCHANGED <<frame, diskVars, managerVars, compilingNow, calls, runs, nResolve>>

\* Lines 541-545: the compressor yields a failure.
CompressError(r) ==
    /\ req[r].pc = "compressing"
    /\ req' = Failed(r, <<"Failed to compress asset", req[r].entry[1].path>>)
    /\ compilingNow' = Released(r)
    /\ runs' = RunEnded(r, "failed")
    /\ UNCHANGED <<frame, diskVars, managerVars, calls, nResolve>>

OutputFile(r) == UnderRoot(req[r].entry[1].path)

\* Line 542, fs.writeFile: the output file is created (or truncated) ...
WriteOpen(r) ==
    /\ req[r].pc = "writing"
    /\ built' = [f \in DOMAIN built \cup {OutputFile(r)} |->
                   IF f = OutputFile(r)
                   THEN [complete |-> FALSE, wrapped |-> FALSE, compressed |-> FALSE,
                         contents |-> <<>>]
                   ELSE built[f]]
    /\ req' = [req EXCEPT ![r].pc = "written", ![r].wrote = TRUE]
    /\ UNCHANGED <<frame, files, unlinks, managerVars, compilingNow, calls, runs, nResolve>>

\* ... its bytes are written, and the callback of compileAsset runs next().
WriteDone(r) ==
    /\ req[r].pc = "written"
    /\ built' = [f \in DOMAIN built |->
                   IF f = OutputFile(r)
                   THEN [complete |-> TRUE, wrapped |-> req[r].wrapped,
                         compressed |-> req[r].compressed, contents |-> req[r].contents]
                   ELSE built[f]]
    /\ req' = Resumed(r)
    /\ compilingNow' = Released(r)
    /\ runs' = RunEnded(r, "succeeded")
    /\ UNCHANGED <<frame, files, unlinks, managerVars, calls, nResolve>>

\* Line 495, the second static middleware; a request it cannot serve ends
\* in a 404.
StaticAgain(r) ==
    /\ req[r].pc = "static2"
    /\ req' = [req EXCEPT ![r].pc = "done",
                          ![r].status = IF FileAt(req[r].url) # None THEN 200 ELSE 404,
                          ![r].body = FileAt(req[r].url)]
    /\ UNCHANGED <<frame, diskVars, managerVars, compilingNow, calls, runs, nResolve>>

\* ------------------------------------------------------------- environment
\* fs.unlink of a stale output file, issued by assetPath (line 860).
Unlink(f) ==
    /\ f \in unlinks
    /\ unlinks' = unlinks \ {f}
    /\ built' = [g \in DOMAIN built \ {f} |-> built[g]]
    /\ UNCHANGED <<frame, files, managerVars, compilingNow, req, calls, runs, nResolve>>

\* A source file is removed from the asset directory behind the manager's
\* back (the 'asset read error' test replaces jquery.js by a directory).
RemoveSource(f) ==
    /\ f \in DOMAIN files
    /\ files' = [g \in DOMAIN files \ {f} |-> files[g]]
    /\ UNCHANGED <<frame, built, unlinks, managerVars, compilingNow, req, calls, runs, nResolve>>

\* ------------------------------------------------------ the resolution API
CallRecord(identifier, options, result) ==
    LET key == RemapIdentifier(toLowerCase(identifier))
    IN  [identifier |-> identifier, options |-> options, out |-> result.out,
         error |-> result.error,
         entry |-> IF key \in DOMAIN result.pending THEN Some(result.pending[key]) ELSE None,
         assets |-> assets, compilers |-> compilers,
         key |-> result.identifier, defined |-> key \in DOMAIN pendingAssets,
         index |-> reverseCompilerIndex, registered |-> hist.registered,
         files |-> files, writes |-> hist.writes, rehashed |-> hist.rehashed]

\* manager.assetPath(identifier, options).  The call is entered in the log
\* of calls when log is set (the log is no state of the program).
Resolve(identifier, options, log) ==
    /\ log => nResolve < MaxResolve
    /\ LET result == assetPath(identifier, options)
       IN  /\ pendingAssets' = result.pending
           /\ compiledAssets' = result.compiled
           /\ unlinks' = unlinks \cup result.unlinked
           /\ calls' = IF log
                       THEN Append(IF calls = <<>> THEN <<>> ELSE <<calls[Len(calls)]>>,
                                   CallRecord(identifier, options, result))
                       ELSE calls
    /\ nResolve' = IF log THEN nResolve + 1 ELSE nResolve
    /\ UNCHANGED <<frame, files, built, assets, compilers,
                   reverseCompilerIndex, compilingNow, req, runs>>

\* Lines 1004-1023, manager.registerCompiler(inputExt, outputExt, compile)
Compiler(inputExt, outputExt) == [output |-> outputExt, extname |-> inputExt]

registerCompiler(inputExt, outputExt) ==
    /\ hist.registrations < MaxRegister
    /\ compilers' = [e \in DOMAIN compilers \cup {inputExt} |->
                       IF e = inputExt THEN Compiler(inputExt, outputExt) ELSE compilers[e]]
    /\ reverseCompilerIndex' =
         [e \in DOMAIN reverseCompilerIndex \cup {outputExt} |->
            IF e = outputExt
            THEN Append(IF outputExt \in DOMAIN reverseCompilerIndex
                        THEN SelectSeq(reverseCompilerIndex[outputExt],
                                       LAMBDA c : c.extname # inputExt)
                        ELSE <<>>,
                        Compiler(inputExt, outputExt))
            ELSE reverseCompilerIndex[e]]
    /\ hist' = [hist EXCEPT !.registered =
                    Append(SelectSeq(@, LAMBDA e : e # inputExt), inputExt),
                            !.registrations = @ + 1]
    /\ UNCHANGED <<manifest, optionVars, diskVars, assets, compiledAssets, pendingAssets,
                   compilingNow, req, calls, runs, nResolve>>

\* ------------------------------------------------------------ the scenario
MainJs == Rel("", << <<"main", ".js">> >>)

LibJs == Rel("", << <<"lib", ".js">> >>)

StyleLess == Rel("", << <<"style", ".less">> >>)

StyleCss == Rel("", << <<"style", ".css">> >>)

BundleJs == Rel("", << <<"bundle", ".js">> >>)

AllJs == Rel("", << <<"*", ".js">> >>)

\* An output of an earlier run, compiled from another content of main.js.
StaleMainJs == Rel("", << <<"asset">>, <<"0", "0">>, <<"main", ".js">> >>)

StyleTxt == Rel("", << <<"style", ".txt">> >>)

SourceFiles == <<MainJs, LibJs, StyleLess>>

AllSourceFiles == SourceFiles \o <<StyleTxt>>

\* A file in a directory under the asset root, and the directory.
VendorJs == Rel("vendor", << <<"jquery", ".js">> >>)

VendorDir == Rel("", << <<"vendor">> >>)

\* path.dirname of a relative file name (line 910); "." for a file in the root.
Dirname(f) == Rel("", << <<IF f.dir = "" THEN "." ELSE f.dir>> >>)

TreeFiles == SourceFiles \o <<VendorJs>>

EveryFile == AllSourceFiles \o <<VendorJs>>

InitialContent(f) == CHOOSE i \in 1..Len(EveryFile) : EveryFile[i] = f

\* options.manifest (line 362)
manifestName == Rel("", << <<".asset">>, <<"manifest">> >>)

\* What the last call of indexAssets or hashAssets, or the last run of the
\* watch handler, did: the value returned, whether it threw, whether it wrote
\* the manifest, the 'error' events and the 'change' event it emitted.
Report(op, returned, thrown, wrote, error, change) ==
    [op |-> op, returned |-> returned, thrown |-> thrown, wrote |-> wrote,
     error |-> error, change |-> change]

NoReport == Report("", None, FALSE, FALSE, <<>>, None)

\* The extensions the default tag formatters (lib/tags.js) cover.
DefaultTags == {".js", ".css"}

\* The state after new Manager(dir, {compilers: {'.less': ...}}) and init():
\* the directory is indexed and hashed (lines 384-427).
InitManager(sources, prefix, outputs, separate) ==
    /\ files = [f \in Range(sources) |-> [content |-> InitialContent(f), mtime |-> 1]]
    /\ built = [f \in outputs |->
                  [complete |-> TRUE, wrapped |-> FALSE, compressed |-> FALSE,
                   contents |-> <<[name |-> MainJs, text |-> 0, compiled |-> FALSE]>>]]
    /\ unlinks = {}
    /\ assets = [i \in 1..Len(sources) |->
                   [key |-> sources[i], name |-> sources[i], mtime |-> 1,
                    hash |-> hashFile(InitialContent(sources[i]))]]
    /\ compiledAssets = [c \in {getCanonicalPath(f) : f \in outputs} |-> <<StaleMainJs>>]
    /\ pendingAssets = <<>>
    /\ compilingNow = <<>>
    /\ compilers = [e \in {".less"} |-> Compiler(".less", ".css")]
    /\ reverseCompilerIndex = [e \in {".css"} |-> <<Compiler(".less", ".css")>>]
    /\ req = [r \in ReqIds |-> IdleRequest]
    /\ calls = <<>>
    /\ runs = <<>>
    /\ nResolve = 0
    /\ manifest = [f \in Range(sources) |->
                     [mtime |-> 1, hash |-> hashFile(InitialContent(f))]]
    /\ urlPrefix = prefix
    /\ tags = DefaultTags
    /\ separateBundles = separate
    /\ hist = [writes |-> [f \in Range(sources) |-> 0],
               rehashed |-> [f \in Range(sources) |-> TRUE],
               registered |-> <<".less">>,
               registrations |-> 0,
               edits |-> 0,
               notices |-> {},
               tagged |-> {},
               readable |-> TRUE,
               damage |-> "none",
               last |-> NoReport,
               dirs |-> {Dirname(f) : f \in Range(sources)} \ {Dirname(MainJs)},
               effects |-> <<>>]

\* Lines 370 and 372: the output is neither compressed nor wrapped unless the
\* application asks for it.
PipelineOptions(compressed, wrapped) == compress = compressed /\ wrapJavascript = wrapped

\* Line 358: the prefix of the names of output files.
NamingOptions(prefix) == assetPrefix = prefix

\* separateBundles is off unless the application turns it on (line 373).
InitWith(sources, prefix, outputs) ==
    /\ InitManager(sources, prefix, outputs, FALSE)
    /\ PipelineOptions(FALSE, FALSE)
    /\ NamingOptions(defaultAssetPrefix)

Init == InitWith(SourceFiles, None, {StaleMainJs})

\* ---------------------------------------------------------------- serving
\* The assets the views of the application define: style.less, compiled to
\* style.css, and a bundle with the empty identifier that holds main.js.
ServedAssets ==
    {<<StyleLess, NoOptions>>, <<EmptyString, Opts(Some(<<MainJs>>), None, None)>>}

\* The source files that are removed while the application runs.
Removable == {MainJs}

\* The paths clients ask for: the paths handed out by the manager, a source
\* file, the path of style.css with an outdated hash, an output path of an
\* asset the manager does not know, and one whose canonical name is
\* "constructor".
RequestUrls ==
    {pendingAssets[k].path : k \in DOMAIN pendingAssets}
    \cup {Url("", MainJs.base),
          Url("", << <<"asset">>, <<"0", "0">>, <<"style", ".css">> >>),
          Url("", << <<"asset">>, <<"0", "0">>, <<"other", ".js">> >>),
          Url("", << <<"asset">>, <<"0", "0">>, <<"constructor">> >>)}

RequestStep(r) ==
    \/ \E url \in RequestUrls : Issue(r, url)
    \/ StaticLookup(r)
    \/ StaticServe(r)
    \/ PassOn(r)
    \/ StartCompile(r)
    \/ Enqueue(r)
    \/ ThrowInMiddleware(r)
    \/ ReadFile(r)
    \/ ReadFileError(r)
    \/ CompilerDone(r)
    \/ CompilerError(r)
    \/ WriteOpen(r)
    \/ WriteDone(r)
    \/ StaticAgain(r)

Next ==
    \/ \E r \in ReqIds : RequestStep(r)
    \/ \E a \in ServedAssets : Resolve(a[1], a[2], FALSE)
    \/ \E f \in Removable : RemoveSource(f)

Spec == Init /\ [][Next]_vars

\* -------------------------------------------------------------- resolution
\* The identifiers and options the application resolves, and the compilers
\* it registers after construction.
ResolveIdentifiers == {MainJs, StyleLess, BundleJs}

ResolveOptions ==
    {NoOptions,
     Opts(Some(<<MainJs, LibJs>>), None, None),
     Opts(Some(<<AllJs>>), None, None),
     Opts(None, Some(<<LibJs>>), None),
     Opts(None, None, Some([k \in {"id"} |-> "x"]))}

Registrations == {<<".css", ".min">>, <<".less", ".min">>}

NextResolve ==
    \/ \E id \in ResolveIdentifiers : \E o \in ResolveOptions : Resolve(id, o, TRUE)
    \/ \E c \in Registrations : registerCompiler(c[1], c[2])
    \/ \E f \in DOMAIN built : Unlink(f)

ResolveSpec == Init /\ [][NextResolve]_vars

\* C9: two successive assetPath calls with the same identifier and the same
\* options, with the same asset map and the same compilers at both calls,
\* return the same path and leave the same pending entry for the identifier.
C9_ResolveTwiceGivesTheSame ==
    (/\ Len(calls) = 2
     /\ calls[1].identifier = calls[2].identifier
     /\ calls[1].options = calls[2].options
     /\ calls[1].assets = calls[2].assets
     /\ calls[1].compilers = calls[2].compilers) =>
       /\ calls[1].out = calls[2].out
       /\ calls[1].entry = calls[2].entry

\* ------------------------------------------------- the request serialiser
InPipeline(r) == req[r].pc \in {"reading", "compiling", "writing", "written"}

\* The request has left the compile, resume and error middleware.
Delivered(r) == req[r].pc \in {"static2", "done"}

\* The invocation a request started or was queued behind (0: none).
RunOf(r) == IF req[r].run # 0 THEN req[r].run ELSE req[r].wait

Outcome(r) == IF req[r].err # <<>> THEN <<"failed", req[r].err>> ELSE <<"continued">>

\* C1: for every canonical name at most one invocation of compileAsset is
\* running at any time, and a request that met its canonical name compiling
\* sits in the wait queue of that name and has started no invocation.
C1_OneCompilationPerPath ==
    /\ \A i, j \in 1..Len(runs) :
          (/\ runs[i].outcome = "running"
           /\ runs[j].outcome = "running"
           /\ runs[i].canonical = runs[j].canonical) => i = j
    /\ \A r \in ReqIds :
          req[r].pc = "queued" =>
             /\ Canonical(r) \in DOMAIN compilingNow
             /\ r \in Range(compilingNow[Canonical(r)])
             /\ req[r].run = 0

C1_Witness ==
    \E r1, r2 \in ReqIds :
       /\ InPipeline(r1)
       /\ req[r2].pc = "queued"
       /\ req[r2].wait = req[r1].run

\* C2: of the requests for one output path that were sent while its file did
\* not exist and no compilation of it had finished, only one starts the
\* pipeline, and none is answered before an invocation for the path has
\* finished.
C2_SingleInvocationForEarlyRequests ==
    \A r \in ReqIds :
       req[r].early =>
          /\ Cardinality({i \in 1..Len(runs) :
                            /\ runs[i].canonical = Canonical(r)
                            /\ req[runs[i].by].early}) <= 1
          /\ req[r].pc = "done" => Finished(Canonical(r))

C4_KeyIffCompiling ==
    /\ \A c \in DOMAIN compilingNow \cup {runs[i].canonical : i \in 1..Len(runs)} :
          (c \in DOMAIN compilingNow) <=> (Running(c) # 0)
    /\ \A r \in ReqIds :
          (req[r].pc = "queued") <=> (\E c \in DOMAIN compilingNow : r \in Range(compilingNow[c]))

\* C5: when an invocation of compileAsset has finished, no request queued
\* behind it is still suspended, and its canonical name is idle again, so
\* that a later request can start a new invocation.
C5_NoWaiterLeftBehind ==
    /\ \A r \in ReqIds :
          req[r].pc = "queued" =>
             req[r].wait # 0 /\ runs[req[r].wait].outcome = "running"
    /\ \A i \in 1..Len(runs) :
          (runs[i].outcome # "running" /\ Running(runs[i].canonical) = 0) =>
             ~IsCompiling(runs[i].canonical)

\* C6: every request released by a successful invocation of compileAsset
\* finds a complete file at the path it asked for.
C6_ReleasedRequestsFindTheFile ==
    \A r \in ReqIds :
       (/\ RunOf(r) # 0
        /\ runs[RunOf(r)].outcome = "succeeded"
        /\ req[r].pc = "done") =>
          /\ req[r].status = 200
          /\ req[r].body # None
          /\ req[r].body[1].complete

\* C7: compileAsset is invoked for a request only if the requested path is
\* the output path of the pending asset and there is no file at that path.
C7_InvokedOnlyForTheOutputPath ==
    \A i \in 1..Len(runs) :
       /\ req[runs[i].by].url = req[runs[i].by].entry[1].path
       /\ ~runs[i].fileThere

\* C8: a request that does not name a compiled asset, or names one whose
\* canonical name has no pending entry, starts no invocation, is not queued,
\* gets no canonical name attached and no error, and ends in a 404 when
\* there is no file at its path.
C8_UnknownRequestsPassedOn ==
    \A r \in ReqIds :
       (/\ Delivered(r)
        /\ \/ ~isCompiledAsset(req[r].url)
           \/ Canonical(r) \notin DOMAIN pendingAssets) =>
          /\ req[r].run = 0
          /\ req[r].wait = 0
          /\ req[r].name = None
          /\ req[r].err = <<>>
          /\ (req[r].pc = "done" /\ FileAt(req[r].url) = None) => req[r].status = 404

\* C10: a request sent for an output path whose file has been written never
\* starts the pipeline and is never queued, and no step other than a step of
\* a request (so no call of assetPath) starts the pipeline.
C10_NoCompilationOnceWritten ==
    [][/\ req' = req => runs' = runs
       /\ \A r \in ReqIds :
             req'[r].existed => req'[r].run = 0 /\ req'[r].wait = 0 /\ ~InPipeline(r)']_vars

C10_Witness ==
    \E r \in ReqIds :
       /\ req[r].existed
       /\ req[r].pc = "done"
       /\ req[r].status = 200
       /\ \E i \in 1..Len(runs) :
             runs[i].outcome = "succeeded" /\ runs[i].canonical = Canonical(r)

\* ------------------------------------------------------------ the hash cache
\* utils.walkDirectory(this.dir): the files of the asset directory with their
\* modification times, the source files first.
RECURSIVE SeqOfSet(_)
SeqOfSet(S) ==
    IF S = {} THEN <<>>
    ELSE LET x == CHOOSE y \in S : TRUE IN <<x>> \o SeqOfSet(S \ {x})

RECURSIVE Listing(_)
Listing(names) ==
    IF names = <<>> THEN <<>>
    ELSE (IF Head(names) \in DOMAIN files
          THEN <<[name |-> Head(names), mtime |-> files[Head(names)].mtime]>>
          ELSE IF Head(names) \in DOMAIN built
          THEN <<[name |-> Head(names), mtime |-> 1]>>
          ELSE <<>>) \o Listing(Tail(names))

walkDirectory ==
    Listing(EveryFile)
        \o Listing(SeqOfSet(DOMAIN built))
        \o (IF hist.damage = "absent" THEN <<>>
            ELSE <<[name |-> manifestName, mtime |-> 1]>>)

\* The value of a property that has not been set.
Undefined == <<"undefined">>

PutAssetKeepingTheHash(assetSeq, record) ==
    IF \E i \in 1..Len(assetSeq) : assetSeq[i].key = record.key
    THEN [i \in 1..Len(assetSeq) |->
            IF assetSeq[i].key = record.key
            THEN [record EXCEPT !.hash = assetSeq[i].hash]
            ELSE assetSeq[i]]
    ELSE Append(assetSeq, record)

\* this.assets[key] = record: a key that is there keeps its place, a new key
\* goes to the end.
RECURSIVE PutAsset(_, _)
PutAsset(assetSeq, record) ==
    IF assetSeq = <<>> THEN <<record>>
    ELSE IF Head(assetSeq).key = record.key THEN <<record>> \o Tail(assetSeq)
    ELSE <<Head(assetSeq)>> \o PutAsset(Tail(assetSeq), record)

RECURSIVE DeleteAsset(_, _)
DeleteAsset(assetSeq, key) ==
    IF assetSeq = <<>> THEN <<>>
    ELSE IF Head(assetSeq).key = key THEN Tail(assetSeq)
    ELSE <<Head(assetSeq)>> \o DeleteAsset(Tail(assetSeq), key)

\* Lines 559-572, indexAssets: the state [assets, compiled] after the files
\* of the listing have been entered.
RECURSIVE indexAssets(_, _)
indexAssets(state, listing) ==
    IF listing = <<>> THEN state
    ELSE LET file == Head(listing)
             canonical == getCanonicalPath(file.name)
             record == [key |-> toLowerCase(file.name), name |-> file.name,
                        mtime |-> file.mtime, hash |-> Undefined]
         IN  indexAssets(
               IF isCompiledAsset(file.name)
               THEN [state EXCEPT !.compiled =
                       [c \in DOMAIN state.compiled \cup {canonical} |->
                          IF c = canonical
                          THEN (IF c \in DOMAIN state.compiled THEN state.compiled[c]
                                ELSE <<>>) \o <<file.name>>
                          ELSE state.compiled[c]]]
               ELSE IF file.name # manifestName
               THEN [state EXCEPT !.assets = PutAsset(state.assets, record)]
               ELSE state,
               Tail(listing))

\* fs.statSync and fs.readFileSync: the modification time and the bytes of a
\* file that is there.  The bytes of a compiled file and of the
\* manifest are not told apart.
StatOf(f) ==
    IF f \in DOMAIN files THEN Some(files[f])
    ELSE IF f \in DOMAIN built \/ (f = manifestName /\ hist.damage # "absent")
    THEN Some([content |-> 0, mtime |-> 1])
    ELSE None

\* Lines 606-615, the loop of hashAssets: the hash of the manifest is taken
\* for an asset whose modification time is the one the manifest has, the
\* file is hashed otherwise.
ManifestHit(record, man) ==
    record.key \in DOMAIN man /\ man[record.key].mtime = record.mtime

RECURSIVE HashAll(_, _)
HashAll(assetSeq, man) ==
    IF assetSeq = <<>> THEN <<>>
    ELSE LET record == Head(assetSeq)
         IN  <<[record EXCEPT !.hash =
                   IF ManifestHit(record, man) THEN man[record.key].hash
                   ELSE hashFile(StatOf(record.key)[1].content)]>>
             \o HashAll(Tail(assetSeq), man)

\* Lines 626-634, writeManifest: JSON.stringify(this.assets)
ManifestOf(assetSeq) ==
    [k \in {assetSeq[i].key : i \in 1..Len(assetSeq)} |->
       LET record == assetSeq[CHOOSE i \in 1..Len(assetSeq) : assetSeq[i].key = k]
       IN  [mtime |-> record.mtime, hash |-> record.hash]]

Rehashed(names) == [f \in DOMAIN hist.rehashed |-> hist.rehashed[f] \/ f \in names]

\* Lines 598-605: the value of the variable manifest after the try block.
\* Reading a file that is not there throws, JSON.parse of a text that is not
\* JSON throws, and the assertion throws for a number; null is of type
\* object.  An entry is null, or has its modification time and (unless it was
\* written without one) its hash.
readManifest ==
    CASE hist.damage \in {"absent", "garbage", "number"} ->
            [null |-> FALSE, entries |-> <<>>]
      [] hist.damage = "null" ->
            [null |-> TRUE, entries |-> <<>>]
      [] hist.damage = "nullEntry" ->
            [null |-> FALSE,
             entries |-> [k \in DOMAIN manifest |->
                            [null |-> TRUE, mtime |-> 0, hash |-> Undefined]]]
      [] hist.damage = "noHash" ->
            [null |-> FALSE,
             entries |-> [k \in DOMAIN manifest |->
                            [null |-> FALSE, mtime |-> manifest[k].mtime,
                             hash |-> Undefined]]]
      [] OTHER ->
            [null |-> FALSE,
             entries |-> [k \in DOMAIN manifest |->
                            [null |-> FALSE, mtime |-> manifest[k].mtime,
                             hash |-> manifest[k].hash]]]

\* Line 609: the first asset at which the test throws a TypeError, `in`
\* applied to null or .mtime read from a null entry; 0 when none does.
FirstThrow(assetSeq, parsed) ==
    LET bad == {i \in 1..Len(assetSeq) :
                  \/ parsed.null
                  \/ /\ assetSeq[i].key \in DOMAIN parsed.entries
                     /\ parsed.entries[assetSeq[i].key].null}
    IN  IF bad = {} THEN 0 ELSE CHOOSE i \in bad : \A j \in bad : i <= j

\* Lines 597-620, the body of hashAssets applied to an asset map: the map it
\* leaves, whether it threw, the value of outdated and whether the manifest
\* was written.
HashResult(assetSeq) ==
    LET parsed == readManifest
        stop == FirstThrow(assetSeq, parsed)
        upto == IF stop = 0 THEN Len(assetSeq) ELSE stop - 1
        outdated == \E i \in 1..upto : ~ManifestHit(assetSeq[i], parsed.entries)
    IN  [assets |-> HashAll(Take(assetSeq, upto), parsed.entries)
                       \o Drop(assetSeq, upto),
         thrown |-> stop # 0,
         outdated |-> outdated,
         wrote |-> stop = 0 /\ outdated]

HashReport(result) ==
    Report("hashAssets", IF result.thrown THEN None ELSE Some(result.outdated),
           result.thrown, result.wrote, <<>>, None)

\* Lines 597-620, manager.hashAssets()
hashAssets ==
    /\ \A i \in 1..Len(assets) : assets[i].key \in DOMAIN files
    /\ \E result \in {HashResult(assets)} :
          /\ assets' = result.assets
          /\ manifest' = IF result.wrote THEN ManifestOf(result.assets) ELSE manifest
          /\ hist' = [hist EXCEPT !.rehashed = IF result.thrown THEN @
                                               ELSE Rehashed(DOMAIN files),
                                  !.damage = IF result.wrote THEN "none" ELSE @,
                                  !.last = HashReport(result)]
    /\ UNCHANGED <<files, built, unlinks, compiledAssets, pendingAssets, compilingNow,
                   compilers, reverseCompilerIndex, req, calls, runs, nResolve, optionVars>>

\* Lines 580-589 and 561: getAssets emits the error of a directory walk that
\* failed and returns undefined, and indexAssets calls forEach on what
\* getAssets returned.
IndexThrows ==
    Report("indexAssets", None, TRUE, FALSE, <<"Failed to locate assets">>, None)

\* manager.indexAssets(); manager.hashAssets(), as init does (lines 421-422)
\* and a notification for a directory (lines 925-926).
Rescan ==
    /\ \A i \in 1..Len(assets) : assets[i].key \in DOMAIN files
    /\ IF hist.readable
       THEN \E indexed \in {indexAssets([assets |-> assets, compiled |-> compiledAssets],
                                        walkDirectory)} :
            \E result \in {HashResult(indexed.assets)} :
               /\ \A c \in DOMAIN indexed.compiled :
                     Len(indexed.compiled[c]) <= MaxListed
               /\ assets' = result.assets
               /\ compiledAssets' = indexed.compiled
               /\ manifest' = IF result.wrote THEN ManifestOf(result.assets)
                              ELSE manifest
               /\ hist' = [hist EXCEPT !.rehashed = IF result.thrown THEN @
                                                    ELSE Rehashed(DOMAIN files),
                                       !.damage = IF result.wrote THEN "none" ELSE @,
                                       !.last = HashReport(result)]
       ELSE /\ hist' = [hist EXCEPT !.last = IndexThrows]
            /\ UNCHANGED <<assets, compiledAssets, manifest>>
    /\ UNCHANGED <<files, built, unlinks, pendingAssets, compilingNow, compilers,
                   reverseCompilerIndex, req, calls, runs, nResolve, optionVars>>

\* Lines 923-927, the notification names a directory: the directory is
\* indexed and hashed again.  indexAssets throws when the directory cannot
\* be listed and hashAssets may throw; the handler catches either (line 934)
\* and deletes the record under the name of the notification.
Reindexed(f) ==
    IF ~hist.readable
    THEN [assets |-> DeleteAsset(assets, toLowerCase(f)), compiled |-> compiledAssets,
          effects |-> <<"error">>]
    ELSE LET indexed == indexAssets([assets |-> assets, compiled |-> compiledAssets],
                                    walkDirectory)
             result == HashResult(indexed.assets)
         IN  [assets |-> IF result.thrown
                         THEN DeleteAsset(result.assets, toLowerCase(f))
                         ELSE result.assets,
              compiled |-> indexed.compiled,
              effects |-> IF result.wrote THEN <<"manifest">> ELSE <<>>]

\* Lines 914-940, the handler of fs.watch: nothing is done for a compiled
\* asset and for the manifest; otherwise the directory is indexed again when
\* the notification names a directory, the record of the file is replaced
\* when it names a file, and deleted when nothing is there; then the
\* manifest is written and 'change' is emitted.  (The model delivers
\* notifications also after removeWatchers was not followed by
\* watchDirectory.)
Watch(f) ==
    /\ f \in hist.notices
    /\ IF isCompiledAsset(f) \/ f = manifestName
       THEN /\ hist' = [hist EXCEPT !.notices = @ \ {f}]
            /\ UNCHANGED <<assets, manifest, compiledAssets>>
       ELSE \E stat \in {StatOf(f)} :
            \E updated \in {IF f \in hist.dirs THEN Reindexed(f)
                             ELSE [assets |-> IF stat # None
                                              THEN PutAsset(assets,
                                                     [key |-> toLowerCase(f), name |-> f,
                                                      mtime |-> stat[1].mtime,
                                                      hash |-> hashFile(stat[1].content)])
                                              ELSE DeleteAsset(assets, toLowerCase(f)),
                                   compiled |-> compiledAssets,
                                   effects |-> <<>>]} :
               /\ \A c \in DOMAIN updated.compiled :
                     Len(updated.compiled[c]) <= MaxListed
               /\ assets' = updated.assets
               /\ compiledAssets' = updated.compiled
               /\ manifest' = ManifestOf(updated.assets)
               /\ hist' = [hist EXCEPT !.rehashed = Rehashed({f}),
                                       !.notices = @ \ {f},
                                       !.damage = "none",
                                       !.last = Report("watch", None, FALSE, TRUE,
                                                       IF "error" \in Range(updated.effects)
                                                       THEN <<"Failed to locate assets">>
                                                       ELSE <<>>, Some(f)),
                                       !.effects = updated.effects
                                                      \o <<"manifest", "change">>]
    /\ UNCHANGED <<files, built, unlinks, pendingAssets, compilingNow,
                   compilers, reverseCompilerIndex, req, calls, runs, nResolve, optionVars>>

\* The environment writes new bytes to a source file; the modification time
\* moves on unless the writer puts the old one back (or the clock of the file
\* system is too coarse to tell).
WriteSource(f, content, keepMtime) ==
    /\ f \in DOMAIN files
    /\ hist.edits < MaxEdits
    /\ content # files[f].content
    /\ files' = [files EXCEPT ![f] = [content |-> content,
                                      mtime |-> IF keepMtime THEN @.mtime ELSE @.mtime + 1]]
    /\ hist' = [hist EXCEPT !.edits = @ + 1, !.writes[f] = @ + 1, !.rehashed[f] = FALSE,
                            !.notices = @ \cup {f}]
    /\ UNCHANGED <<built, unlinks, manifest, managerVars, compilingNow, req, calls, runs,
                   nResolve, optionVars>>

\* The environment touches a source file: a new modification time, same bytes.
Touch(f) ==
    /\ f \in DOMAIN files
    /\ hist.edits < MaxEdits
    /\ files' = [files EXCEPT ![f].mtime = @ + 1]
    /\ hist' = [hist EXCEPT !.edits = @ + 1, !.notices = @ \cup {f}]
    /\ UNCHANGED <<built, unlinks, manifest, managerVars, compilingNow, req, calls, runs,
                   nResolve, optionVars>>

\* The source file that changes, the bytes written to it (those of lib.js and
\* new ones), and the assets resolved meanwhile.
Changeable == {MainJs}

NewContents == {1, 2}

HashIdentifiers == {BundleJs}

HashOptions ==
    {NoOptions,
     Opts(Some(<<MainJs, LibJs>>), None, None),
     Opts(Some(<<LibJs, MainJs>>), None, None)}

InitHash == InitWith(SourceFiles, None, {})

NextHash ==
    \/ \E id \in HashIdentifiers : \E o \in HashOptions : Resolve(id, o, TRUE)
    \/ \E f \in Changeable : \E c \in NewContents : \E keep \in BOOLEAN :
          WriteSource(f, c, keep)
    \/ \E f \in Changeable : Touch(f)
    \/ \E f \in Changeable : Watch(f)
    \/ hashAssets
    \/ Rescan

HashSpec == InitHash /\ [][NextHash]_vars

\* ---------------------------------------------------- content addressing
\* The last two assetPath calls, when both returned a path.
TwoResolved == Len(calls) = 2 /\ calls[1].out # None /\ calls[2].out # None

\* The constituents and the dependencies a call stored, by key and by hash.
Names(call) == [i \in 1..Len(call.entry[1].assets) |-> call.entry[1].assets[i].key]

DepNames(call) ==
    [i \in 1..Len(call.entry[1].dependencies) |-> call.entry[1].dependencies[i].key]

Hashes(call) == [i \in 1..Len(call.entry[1].assets) |-> call.entry[1].assets[i].hash]

DepHashes(call) ==
    [i \in 1..Len(call.entry[1].dependencies) |-> call.entry[1].dependencies[i].hash]

Mtimes(call) == [i \in 1..Len(call.entry[1].assets) |-> call.entry[1].assets[i].mtime]

SameAsset ==
    /\ calls[1].identifier = calls[2].identifier
    /\ Names(calls[1]) = Names(calls[2])
    /\ DepNames(calls[1]) = DepNames(calls[2])

\* C11: when the bytes of a constituent file differ between two resolutions
\* of an asset, and at both resolutions hashAssets had run, or a watch
\* notification for the file had been handled, after the bytes the file then
\* had were written, the second resolution returns another output path than
\* the first.
C11_ContentChangeChangesThePath ==
    (/\ TwoResolved
     /\ SameAsset
     /\ \A f \in Range(Names(calls[1])) : calls[1].rehashed[f]
     /\ \E f \in Range(Names(calls[2])) :
           /\ calls[1].files[f].content # calls[2].files[f].content
           /\ calls[2].rehashed[f]) =>
       calls[1].out # calls[2].out

\* C12: when the files of an asset had been rehashed (by hashAssets or a
\* watch notification) before it was resolved, and until the next resolution
\* no bytes were written to any of them and only a modification time changed,
\* both resolutions return the same output path.
C12_MtimeChangeKeepsThePath ==
    (/\ TwoResolved
     /\ SameAsset
     /\ \A f \in Range(Names(calls[2])) \cup Range(DepNames(calls[2])) :
           /\ calls[1].rehashed[f]
           /\ calls[1].writes[f] = calls[2].writes[f]
     /\ \E f \in Range(Names(calls[2])) \cup Range(DepNames(calls[2])) :
           calls[1].files[f].mtime # calls[2].files[f].mtime) =>
       calls[1].out = calls[2].out

\* C13: two resolutions that store the same identifier with the same
\* constituent hashes and the same dependency hashes, in the same order,
\* return the same output path, whatever the modification times and whatever
\* was resolved or rehashed before.
C13_PathIsAFunctionOfTheHashes ==
    (/\ TwoResolved
     /\ calls[1].key = calls[2].key
     /\ Hashes(calls[1]) = Hashes(calls[2])
     /\ DepHashes(calls[1]) = DepHashes(calls[2])) =>
       calls[1].out = calls[2].out

C13_Witness ==
    /\ TwoResolved
    /\ calls[1].key = calls[2].key
    /\ Hashes(calls[1]) = Hashes(calls[2])
    /\ Mtimes(calls[1]) # Mtimes(calls[2])
    /\ calls[1].assets # calls[2].assets
    /\ calls[1].out = calls[2].out

\* Two resolutions of one bundle whose include lists name the same files (at
\* least two) in another order, with the same asset map.
Reordered ==
    /\ TwoResolved
    /\ calls[1].identifier = calls[2].identifier
    /\ calls[1].options.include # None
    /\ calls[2].options.include # None
    /\ calls[1].options.include[1] # calls[2].options.include[1]
    /\ Len(calls[1].options.include[1]) = Len(calls[2].options.include[1])
    /\ Range(calls[1].options.include[1]) = Range(calls[2].options.include[1])
    /\ Len(Names(calls[1])) >= 2
    /\ calls[1].assets = calls[2].assets

\* C14 as claimed: a bundle of two or more files resolved with its include
\* list in another order gets another output path.
C14_ReorderingChangesThePath == Reordered => calls[1].out # calls[2].out

\* C14 as amended: a bundle resolved with its include list in another order
\* gets another output path whenever the two orders give different sequences
\* of content hashes.
C14_ReorderingDistinctHashesChangesThePath ==
    (Reordered /\ Hashes(calls[1]) # Hashes(calls[2])) => calls[1].out # calls[2].out

C14_Witness ==
    /\ Reordered
    /\ Hashes(calls[1]) # Hashes(calls[2])
    /\ calls[1].out # calls[2].out

\* ------------------------------------------------------------ asset lookup
\* The names the views use: main.js in capitals, a stylesheet that has no
\* source, and the compilers registered while the application runs.
MainJsUpper == Rel("", << <<"MAIN", ".js">> >>)

OtherCss == Rel("", << <<"other", ".css">> >>)

LookupCalls ==
    {<<StyleLess, NoOptions>>,
     <<StyleCss, NoOptions>>,
     <<OtherCss, NoOptions>>,
     <<BundleJs, Opts(Some(<<AllJs, MainJsUpper>>), None, None)>>,
     <<BundleJs, Opts(Some(<<StyleCss, StyleLess>>), None, None)>>}

LookupRegistrations == {<<".txt", ".css">>, <<".less", ".min">>, <<".css", ".min">>}

InitLookup == InitWith(AllSourceFiles, None, {})

NextLookup ==
    \/ \E c \in LookupCalls : Resolve(c[1], c[2], TRUE)
    \/ \E c \in LookupRegistrations : registerCompiler(c[1], c[2])

LookupSpec == InitLookup /\ [][NextLookup]_vars

\* The last assetPath call.
LastCall == calls[Len(calls)]

\* The keys of the asset map a call found.
KeysAt(call) == {call.assets[i].key : i \in 1..Len(call.assets)}

\* C15: the constituent list stored for a resolved bundle holds no asset
\* record twice: it is its own duplicate-free list in first-occurrence order.
C15_ConstituentsOnlyOnce ==
    (/\ calls # <<>>
     /\ LastCall.out # None
     /\ LastCall.options.include # None) =>
       /\ stripDuplicates(Names(LastCall)) = Names(LastCall)
       /\ \A i, j \in 1..Len(LastCall.entry[1].assets) :
             LastCall.entry[1].assets[i] = LastCall.entry[1].assets[j] => i = j

\* The file names a call without glob patterns asks for (lines 749-762).
Requested(call) ==
    IF call.options.include = None THEN <<call.key>>
    ELSE stripDuplicates(call.options.include[1])

NoGlobs(call) ==
    call.options.include # None =>
       \A i \in 1..Len(call.options.include[1]) : ~isGlob(call.options.include[1][i])

\* The source extensions of the compilers that are registered, at the call,
\* with the output extension ext, in the order of their registration.
RegisteredFor(call, ext) ==
    SelectSeq(call.registered, LAMBDA e : call.compilers[e].output = ext)

\* The source files of those compilers for the file name f that exist.
SourcesOf(call, f) ==
    SelectSeq([j \in 1..Len(RegisteredFor(call, extname(f))) |->
                 WithExtension(f, extname(f), RegisteredFor(call, extname(f))[j])],
              LAMBDA g : g # f /\ g \in KeysAt(call))

Absent(call, f) == toLowerCase(f) \notin KeysAt(call)

\* C16: in a first call for an identifier (no glob patterns, no dependencies)
\* where every requested file name is in the asset map or has an existing
\* source file of a compiler registered with its extension as output, each
\* absent name is replaced by the source file of the first such compiler in
\* registration order, the call succeeds and the output path keeps the
\* extension of the identifier.
C16_FallbackToFirstRegisteredCompiler ==
    (/\ calls # <<>>
     /\ ~LastCall.defined
     /\ NoGlobs(LastCall)
     /\ LastCall.options.dependencies = None
     /\ \A i \in 1..Len(Requested(LastCall)) :
           Absent(LastCall, Requested(LastCall)[i]) =>
              SourcesOf(LastCall, toLowerCase(Requested(LastCall)[i])) # <<>>
     /\ \E i \in 1..Len(Requested(LastCall)) : Absent(LastCall, Requested(LastCall)[i])) =>
       /\ LastCall.out # None
       /\ Len(Names(LastCall)) = Len(Requested(LastCall))
       /\ \A i \in 1..Len(Requested(LastCall)) :
             Absent(LastCall, Requested(LastCall)[i]) =>
                Names(LastCall)[i] = SourcesOf(LastCall, toLowerCase(Requested(LastCall)[i]))[1]
       /\ extname(LastCall.out[1]) = extname(LastCall.key)

\* The fallback file names the loop of lines 787-799 tries for the file name
\* f: one for every compiler the reverse index lists under its extension.
Tried(call, f) ==
    LET cs == IF extname(f) \in DOMAIN call.index THEN call.index[extname(f)] ELSE <<>>
    IN  SelectSeq([j \in 1..Len(cs) |-> WithExtension(f, extname(f), cs[j].extname)],
                  LAMBDA g : g # f)

\* A requested name that is not in the asset map and has no fallback file.
Unlocatable(call, f) ==
    /\ Absent(call, f)
    /\ \A j \in 1..Len(Tried(call, toLowerCase(f))) :
          Tried(call, toLowerCase(f))[j] \notin KeysAt(call)

FirstUnlocatable(call) ==
    toLowerCase(Requested(call)[CHOOSE i \in 1..Len(Requested(call)) :
        /\ Unlocatable(call, Requested(call)[i])
        /\ \A k \in 1..(i - 1) : ~Unlocatable(call, Requested(call)[k])])

OutputNameOf(source, output) ==
    /\ extname(source.identifier) \in DOMAIN source.compilers
    /\ toLowerCase(output.identifier) =
          WithExtension(toLowerCase(source.identifier), extname(source.identifier),
                        source.compilers[extname(source.identifier)].output)

\* C18: two successive calls with the same options, asset map and compilers,
\* one with an identifier that has a compiler extension and one with the
\* same name with the compiler's output extension, return the same path and
\* use the same pending entry, keyed by the output-extension name.
C18_CompilerExtensionIsAnAlias ==
    (/\ Len(calls) = 2
     /\ calls[1].options = calls[2].options
     /\ calls[1].assets = calls[2].assets
     /\ calls[1].compilers = calls[2].compilers
     /\ calls[1].index = calls[2].index
     /\ OutputNameOf(calls[1], calls[2]) \/ OutputNameOf(calls[2], calls[1])) =>
       /\ calls[1].out = calls[2].out
       /\ calls[1].key = calls[2].key
       /\ calls[1].entry = calls[2].entry

\* -------------------------------------------------------- URLs and markup
\* An external prefix is a host with or without a closing "/".
Prefix(host, slash) == [host |-> host, slash |-> slash]

\* Lines 705-711: the prefix in front of the path; "/" is not doubled where
\* a prefix that ends in "/" meets a path that starts with "/".
JoinPrefix(prefix, path) ==
    [host |-> prefix.host, slash |-> prefix.slash /\ ~path.abs, path |-> path]

\* Line 705: this.options.urlPrefix || options.prefix
PrefixOf(options) == IF urlPrefix # None THEN urlPrefix ELSE options.prefix

\* Lines 696-700 (and 651-655 with the identifier as it was written): the
\* options of the call laid over the options stored under the name.
DefinedOptions(name, options) ==
    IF name \in DOMAIN pendingAssets
    THEN mergeDefaults(options, pendingAssets[name].options)
    ELSE options

\* Lines 701-712: the URL for the path assetPath returned (None for "").
UrlOf(options, out) ==
    IF out = None THEN None
    ELSE IF PrefixOf(options) # None THEN Some(JoinPrefix(PrefixOf(options)[1], out[1]))
    ELSE Some([host |-> "", slash |-> FALSE, path |-> out[1]])

\* What a tag formatter of lib/tags.js is called with: the URL and the
\* attributes.
Tag(url, attributes) ==
    [url |-> url, attributes |-> IF attributes = None THEN <<>> ELSE attributes[1]]

HtmlOfAnyType(url, options) ==
    IF url # None THEN Some(Tag(url[1], options.attributes)) ELSE None

\* Lines 674-681: the markup for the URL (None for "").
HtmlOf(url, options) ==
    IF url # None /\ extname(url[1].path) \in tags
    THEN Some(Tag(url[1], options.attributes))
    ELSE None

\* Lines 675-679: the error emitted when no formatter is registered for the
\* extension of the URL ("" has no extension).
TagErrorOf(url) ==
    IF url # None /\ extname(url[1].path) \in tags THEN <<>>
    ELSE <<"Unable to create an HTML tag for type",
           IF url = None THEN "" ELSE extname(url[1].path)>>

\* What is kept of a call of asset() or assetUrl(): the arguments, the
\* configured prefix, and what came back.
TagRecord(api, identifier, options, url, html, result) ==
    [api |-> api, identifier |-> identifier, options |-> options,
     url |-> url, html |-> html, out |-> result.out, urlPrefix |-> urlPrefix,
     error |-> result.error, thrown |-> FALSE, tagError |-> <<>>,
     tagged |-> hist.tagged]

Called(record, result) ==
    /\ nResolve < MaxResolve
    /\ nResolve' = nResolve + 1
    /\ pendingAssets' = result.pending
    /\ compiledAssets' = result.compiled
    /\ unlinks' = unlinks \cup result.unlinked
    /\ calls' = Append(IF calls = <<>> THEN <<>> ELSE <<calls[Len(calls)]>>, record)
    /\ UNCHANGED <<frame, files, built, assets, compilers, reverseCompilerIndex,
                   compilingNow, req, runs>>

\* Lines 693-713, manager.assetUrl(identifier, options)
assetUrl(identifier, options0) ==
    \E options \in {DefinedOptions(toLowerCase(identifier), options0)} :
    \E result \in {assetPath(toLowerCase(identifier), options)} :
       Called(TagRecord("assetUrl", identifier, options0, UrlOf(options, result.out),
                        None, result),
              result)

\* manager.assetUrl(identifier), the options left out.  For an identifier
\* that is defined the stored options take the place of the missing ones
\* (lines 696-699); otherwise options stays undefined, assetPath replaces it
\* by {} for itself (line 736), and line 705 reads options.prefix when
\* urlPrefix is empty and assetPath returned a path: a TypeError is thrown.
assetUrlNoOptions(identifier) ==
    \E options \in {DefinedOptions(toLowerCase(identifier), NoOptions)} :
    \E result \in {assetPath(toLowerCase(identifier), options)} :
    \E throws \in {/\ toLowerCase(identifier) \notin DOMAIN pendingAssets
                   /\ result.out # None
                   /\ urlPrefix = None} :
       Called([TagRecord("assetUrl", identifier, NoOptions,
                         IF throws THEN None ELSE UrlOf(options, result.out),
                         None, result) EXCEPT !.thrown = throws],
              result)

\* Lines 647-682, manager.asset(identifier, options) with separateBundles
\* off: the options are merged when the identifier as written is a key of
\* pendingAssets, the URL comes from assetUrl, the tag carries
\* options.attributes.
asset(identifier, options0) ==
    \E options \in {DefinedOptions(identifier, options0)} :
    ~(separateBundles /\ options.include # None) /\
    \E urlOptions \in {DefinedOptions(toLowerCase(identifier), options)} :
    \E result \in {assetPath(toLowerCase(identifier), urlOptions)} :
       Called([TagRecord("asset", identifier, options0, UrlOf(urlOptions, result.out),
                         HtmlOf(UrlOf(urlOptions, result.out), options), result)
                  EXCEPT !.tagError = TagErrorOf(UrlOf(urlOptions, result.out))],
              result)

\* Lines 651-655 and 674-681 for one file of a bundle that is split: the URL,
\* the tag, the error and what assetPath returned.
FileTag(identifier, options0) ==
    LET options == DefinedOptions(identifier, options0)
        urlOptions == DefinedOptions(toLowerCase(identifier), options)
        result == assetPath(toLowerCase(identifier), urlOptions)
    IN  [url |-> UrlOf(urlOptions, result.out),
         html |-> HtmlOf(UrlOf(urlOptions, result.out), options),
         tagError |-> TagErrorOf(UrlOf(urlOptions, result.out)),
         result |-> result]

\* What the calls of assetPath for the files of a split bundle leave, one
\* after the other: each call adds or replaces the entry of its own identifier.
LastChange(k, parts, field, before) ==
    LET changed == {i \in 1..Len(parts) :
                      /\ k \in DOMAIN parts[i].result[field]
                      /\ (k \in DOMAIN before => parts[i].result[field][k] # before[k])}
    IN  IF changed = {} THEN before[k]
        ELSE parts[CHOOSE i \in changed : \A j \in changed : j <= i].result[field][k]

SplitResult(parts, error) ==
    [out |-> None, error |-> error, identifier |-> None,
     pending |-> [k \in DOMAIN pendingAssets
                         \cup UNION {DOMAIN parts[i].result.pending : i \in 1..Len(parts)} |->
                    LastChange(k, parts, "pending", pendingAssets)],
     compiled |-> [k \in DOMAIN compiledAssets
                          \cup UNION {DOMAIN parts[i].result.compiled : i \in 1..Len(parts)} |->
                     LastChange(k, parts, "compiled", compiledAssets)],
     unlinked |-> UNION {parts[i].result.unlinked : i \in 1..Len(parts)}]

\* Lines 657-672, manager.asset(identifier, options) with separateBundles on
\* and options.include given: one call of asset() for each name expandGlobs
\* returns, with the options without include, the results joined by "\n".
\* No entry stored by asset() has an include in this mode, so that the calls
\* for the files take lines 674-681.
assetSeparately(identifier, options0) ==
    \E options \in {DefinedOptions(identifier, options0)} :
    (separateBundles /\ options.include # None) /\
    \E include \in {expandGlobs(options.include[1])} :
    \E parts \in {IF include.ok
                   THEN [i \in 1..Len(include.filenames) |->
                           FileTag(include.filenames[i], [options EXCEPT !.include = None])]
                   ELSE <<>>} :
    \E result \in {SplitResult(parts, IF include.ok THEN <<>>
                                       ELSE include.error
                                              \o <<"when building asset", identifier>>)} :
       Called([api |-> "bundle", identifier |-> identifier, options |-> options0,
               ok |-> include.ok, include |-> include.filenames,
               parts |-> [i \in 1..Len(parts) |->
                            [url |-> parts[i].url, html |-> parts[i].html,
                             tagError |-> parts[i].tagError,
                             error |-> parts[i].result.error]],
               out |-> None, url |-> None, html |-> None, urlPrefix |-> urlPrefix,
               error |-> result.error, thrown |-> FALSE, tagError |-> <<>>,
               tagged |-> hist.tagged,
               defined |-> DOMAIN result.pending, definedBefore |-> DOMAIN pendingAssets],
              result)

\* Lines 975-979, manager.registerTag(ext, formatter)
registerTag(ext) ==
    /\ Cardinality(hist.tagged) < MaxRegister
    /\ tags' = tags \cup {toExtname(ext)}
    /\ hist' = [hist EXCEPT !.tagged = @ \cup {ext}]
    /\ UNCHANGED <<diskVars, manifest, managerVars, compilingNow, req, calls, runs,
                   nResolve, urlPrefix, separateBundles, compress, wrapJavascript,
                   assetPrefix>>

\* The prefixes and attributes of the views, and the assets they define.
Cdn == Prefix("cdn.foo.com", TRUE)

Elsewhere == Prefix("elsewhere.com", FALSE)

ClassBar == [k \in {"class"} |-> "bar"]

IdFoo == [k \in {"id"} |-> "foo"]

TagIdentifiers == {BundleJs, StyleLess}

TagOptions ==
    {NoOptions,
     Opts(Some(<<MainJs, LibJs>>), None, Some(ClassBar)),
     Opts(None, None, Some(ClassBar)),
     Opts(None, None, Some(IdFoo)),
     WithPrefix(NoOptions, Elsewhere)}

InitTag == \E p \in {None, Some(Cdn)} : InitWith(SourceFiles, p, {})

NextTag ==
    \/ \E id \in TagIdentifiers : \E o \in TagOptions : asset(id, o)
    \/ \E id \in TagIdentifiers : \E o \in TagOptions : assetUrl(id, o)
    \/ \E id \in TagIdentifiers : assetUrlNoOptions(id)

TagSpec == InitTag /\ [][NextTag]_vars

\* The attributes of new laid over those of old.
Overlaid(new, old) ==
    [k \in DOMAIN new \cup DOMAIN old |-> IF k \in DOMAIN new THEN new[k] ELSE old[k]]

\* C19: when asset() has returned a tag for an identifier and the next call
\* of asset() for the identifier gives no include and no dependencies, that
\* call returns a tag for the same output path which carries the attributes
\* of the first tag overlaid by the attributes of the call.
C19_LaterCallsAddToTheDefinition ==
    (/\ Len(calls) = 2
     /\ calls[1].api = "asset" /\ calls[2].api = "asset"
     /\ calls[1].identifier = calls[2].identifier
     /\ calls[1].html # None
     /\ calls[2].options.include = None
     /\ calls[2].options.dependencies = None) =>
       /\ calls[2].html # None
       /\ calls[2].out = calls[1].out
       /\ calls[2].html[1].attributes =
             Overlaid(Tag(calls[2].url, calls[2].options.attributes).attributes,
                      calls[1].html[1].attributes)

\* C20: the URL assetUrl() returns starts with the prefix given with the
\* call when one is given, and with the configured urlPrefix when the call
\* gives none and one is configured.
C20_PerCallPrefixWins ==
    (/\ calls # <<>>
     /\ LastCall.api = "assetUrl"
     /\ LastCall.url # None) =>
       /\ LastCall.url[1].path = LastCall.out[1]
       /\ LastCall.options.prefix # None =>
             LastCall.url[1].host = LastCall.options.prefix[1].host
       /\ (LastCall.options.prefix = None /\ LastCall.urlPrefix # None) =>
             LastCall.url[1].host = LastCall.urlPrefix[1].host

\* ------------------------------------------------------------------ errors
\* C21: no call of asset() or assetUrl() throws, and a call for which
\* assetPath found no path has emitted an error and returns the empty string.
C21_ResolutionNeverThrows ==
    calls # <<>> =>
       /\ ~LastCall.thrown
       /\ LastCall.out = None =>
             /\ LastCall.error # <<>>
             /\ LastCall.url = None
             /\ LastCall.html = None

\* ------------------------------------------------------------------- tags
\* The extension of style.txt as the application may write it.
TxtSpellings == {".txt", "TXT"}

MissingJs == Rel("", << <<"*", ".min">> >>)

\* The tags a view asks for: an asset and the options given with it.
FormatCalls ==
    {<<StyleTxt, NoOptions>>,
     <<StyleTxt, Opts(None, None, Some(ClassBar))>>,
     <<StyleLess, NoOptions>>,
     <<BundleJs, Opts(Some(<<LibJs, MainJs>>), None, Some(ClassBar))>>,
     <<BundleJs, Opts(Some(<<LibJs, AllJs>>), None, None)>>,
     <<BundleJs, Opts(Some(<<MissingJs>>), None, None)>>}

InitFormat ==
    \E separate \in BOOLEAN :
       /\ InitManager(AllSourceFiles, None, {}, separate)
       /\ PipelineOptions(FALSE, FALSE)
       /\ NamingOptions(defaultAssetPrefix)

NextFormat ==
    \/ \E c \in FormatCalls : asset(c[1], c[2])
    \/ \E c \in FormatCalls : assetSeparately(c[1], c[2])
    \/ \E ext \in TxtSpellings : registerTag(ext)

FormatSpec == InitFormat /\ [][NextFormat]_vars

\* A formatter is registered for extension ext at call c: one of lib/tags.js,
\* or one given to registerTag under a spelling of the extension.
HasFormatter(c, ext) ==
    \/ ext \in DefaultTags
    \/ ext = ".txt" /\ c.tagged \cap TxtSpellings # {}

\* C23: a call of asset() that resolves to a URL whose extension has no
\* formatter returns the empty string and emits 'Unable to create an HTML tag
\* for type' with the extension; when a formatter has been registered for the
\* extension, under any spelling of it, the call returns the markup of the
\* formatter for that URL and emits no such error.
C23_TagNeedsAFormatter ==
    \A n \in 1..Len(calls) :
       (calls[n].api = "asset" /\ calls[n].url # None) =>
          IF HasFormatter(calls[n], extname(calls[n].url[1].path))
          THEN /\ calls[n].html # None
               /\ calls[n].html[1].url = calls[n].url[1]
               /\ calls[n].tagError = <<>>
          ELSE /\ calls[n].html = None
               /\ calls[n].tagError = <<"Unable to create an HTML tag for type",
                                        extname(calls[n].url[1].path)>>

\* asset('style.txt') has returned the empty string, registerTag was called
\* with the extension in upper case and without the dot, and the same call
\* has returned a tag.
C23_Witness ==
    /\ Len(calls) = 2
    /\ calls[1].api = "asset" /\ calls[2].api = "asset"
    /\ calls[1].identifier = StyleTxt /\ calls[2].identifier = StyleTxt
    /\ calls[1].options = calls[2].options
    /\ calls[1].url # None /\ calls[1].html = None /\ calls[1].tagError # <<>>
    /\ calls[2].tagged = {"TXT"}
    /\ calls[2].html # None
    /\ calls[2].url = calls[1].url

\* C24: when asset() has split a bundle, it returns one part for each name
\* of the list of matched files, in the order of the list; no file of the list
\* has two parts; a part is the tag of its file and carries the attributes
\* given with the call, or is empty when an error was emitted for the file; and the
\* call has stored no entry under the identifier of the bundle.
C24_OneTagPerMatchedFile ==
    \A n \in 1..Len(calls) :
       (calls[n].api = "bundle" /\ calls[n].ok) =>
          /\ Len(calls[n].parts) = Len(calls[n].include)
          /\ \A i, j \in 1..Len(calls[n].include) :
                i # j => calls[n].include[i] # calls[n].include[j]
          /\ \A i \in 1..Len(calls[n].parts) :
                IF calls[n].parts[i].html # None
                THEN /\ calls[n].parts[i].html[1].url = calls[n].parts[i].url[1]
                     /\ LastSeg(calls[n].parts[i].url[1].path)
                           = LastSeg(RemapIdentifier(calls[n].include[i]))
                     /\ \A k \in DOMAIN Tag(None, calls[n].options.attributes).attributes :
                           /\ k \in DOMAIN calls[n].parts[i].html[1].attributes
                           /\ calls[n].parts[i].html[1].attributes[k]
                                 = Tag(None, calls[n].options.attributes).attributes[k]
                ELSE calls[n].parts[i].error # <<>> \/ calls[n].parts[i].tagError # <<>>
          /\ calls[n].identifier \notin Range(calls[n].include) =>
                toLowerCase(calls[n].identifier)
                   \notin calls[n].defined \ calls[n].definedBefore

\* ---------------------------------------------------------------- indexing
\* The environment takes away the permission to list the asset directory.
Protect ==
    /\ hist.readable
    /\ hist.edits < MaxEdits
    /\ hist' = [hist EXCEPT !.readable = FALSE, !.edits = @ + 1]
    /\ UNCHANGED <<diskVars, manifest, managerVars, compilingNow, req, calls, runs,
                   nResolve, optionVars>>

\* The environment removes the manifest file or writes other bytes to it.
ManifestDamages == {"absent", "garbage", "number", "null", "nullEntry", "noHash"}

Damage(kind) ==
    /\ hist.edits < MaxEdits
    /\ hist.damage # kind
    /\ hist' = [hist EXCEPT !.damage = kind, !.edits = @ + 1,
                            !.notices = @ \cup {manifestName}]
    /\ UNCHANGED <<diskVars, manifest, managerVars, compilingNow, req, calls, runs,
                   nResolve, optionVars>>

\* Another process of the application leaves a compiled file in the directory.
Output(f) ==
    /\ f \notin DOMAIN built
    /\ hist.edits < MaxEdits
    /\ built' = [g \in DOMAIN built \cup {f} |->
                   IF g = f
                   THEN [complete |-> TRUE, wrapped |-> FALSE, compressed |-> FALSE,
                         contents |-> <<[name |-> MainJs, text |-> 0, compiled |-> FALSE]>>]
                   ELSE built[g]]
    /\ hist' = [hist EXCEPT !.edits = @ + 1, !.notices = @ \cup {f}]
    /\ UNCHANGED <<files, unlinks, manifest, managerVars, compilingNow, req, calls, runs,
                   nResolve, optionVars>>

Watched == {MainJs, StaleMainJs, manifestName}

InitIndex == InitWith(SourceFiles, None, {})

NextIndex ==
    \/ Rescan
    \/ hashAssets
    \/ \E f \in Watched : Watch(f)
    \/ \E f \in Changeable : \E c \in NewContents : \E keep \in BOOLEAN :
          WriteSource(f, c, keep)
    \/ \E f \in Changeable : Touch(f)
    \/ Protect
    \/ \E kind \in ManifestDamages : Damage(kind)
    \/ Output(StaleMainJs)

IndexSpec == InitIndex /\ [][NextIndex]_vars

\* C22: a call of indexAssets made while the asset directory cannot be listed
\* emits an error and returns to its caller without throwing.
C22_UnreadableRootIsReportedNotThrown ==
    [][(Rescan /\ ~hist.readable) =>
          (hist'.last.error # <<>> /\ ~hist'.last.thrown)]_vars

\* The manifest file has an entry for asset i of the map with the
\* modification time of the asset.
Stored(i) ==
    /\ hist.damage \in {"none", "noHash"}
    /\ assets[i].key \in DOMAIN manifest
    /\ manifest[assets[i].key].mtime = assets[i].mtime

StoredHash(i) ==
    IF hist.damage = "noHash" THEN Undefined ELSE manifest[assets[i].key].hash

FreshHash(record) == hashFile(files[record.key].content)

\* C28: a call of hashAssets returns; it leaves every asset that has an entry
\* with its modification time in the manifest file with the hash of that
\* entry and every other asset with the hash of its content; it returns true
\* and writes the whole asset map as the manifest when an asset was hashed,
\* and returns false and writes nothing when none was; and every asset has
\* such an entry afterwards, so that a second call hashes nothing.
C28_HashesReusedExactlyOnManifestHit ==
    [][hashAssets =>
          /\ ~hist'.last.thrown
          /\ \A i \in 1..Len(assets) :
                assets'[i].hash = IF Stored(i) THEN StoredHash(i)
                                  ELSE FreshHash(assets[i])
          /\ hist'.last.returned = Some(\E i \in 1..Len(assets) : ~Stored(i))
          /\ hist'.last.wrote = (\E i \in 1..Len(assets) : ~Stored(i))
          /\ hist'.last.wrote => manifest' = ManifestOf(assets')
          /\ ~hist'.last.wrote => (manifest' = manifest /\ hist'.damage = hist.damage)
          /\ \A i \in 1..Len(assets') :
                /\ hist'.damage \in {"none", "noHash"}
                /\ assets'[i].key \in DOMAIN manifest'
                /\ manifest'[assets'[i].key].mtime = assets'[i].mtime]_vars

\* C29: a call of hashAssets made while the manifest file is absent or is
\* not a JSON object of well-formed entries returns, and leaves every asset
\* with the hash of its content.
C29_DamagedManifestIsAnEmptyManifest ==
    [][(hashAssets /\ hist.damage # "none") =>
          /\ ~hist'.last.thrown
          /\ \A i \in 1..Len(assets') :
                assets'[i].hash = FreshHash(assets'[i])]_vars

\* The basename of f starts with the asset prefix, a dash, hexadecimal digits
\* and a dash (the compiled-asset pattern), or f is the manifest.
Ignored(f) ==
    \/ /\ Len(f.base) >= 3
       /\ f.base[1] = <<"asset">>
       /\ IsHexSeg(f.base[2])
    \/ f = manifestName

\* C30: no step makes a compiled file or the manifest an entry of the asset
\* map, and a run of the watch handler for such a file leaves the state of
\* the manager and the manifest as they are and emits nothing.
C30_CompiledFilesAndManifestAreNoAssets ==
    [][/\ \A i \in 1..Len(assets') : ~Ignored(assets'[i].name)
       /\ \A f \in Watched :
             (Watch(f) /\ Ignored(f)) =>
                /\ UNCHANGED <<managerVars, manifest>>
                /\ hist'.last = hist.last
                /\ hist'.damage = hist.damage]_vars

\* The directory was indexed after a compiled file had appeared in it, with
\* the manifest in it, and the watch handler has run for both files.
C30_Witness ==
    /\ StaleMainJs \in DOMAIN built
    /\ getCanonicalPath(StaleMainJs) \in DOMAIN compiledAssets
    /\ hist.damage = "garbage"
    /\ hist.notices = {}
    /\ hist.last.op = "hashAssets"

\* ---------------------------------------------------------------- pipeline
\* Lines 507-512, manager.compileAsset(file, callback) for the entry stored
\* under name: the read of the first constituent is issued.  One call is
\* followed to its callback before the next is made.
compileAsset(r, name) ==
    /\ req[r].pc = "idle"
    /\ IF r = 1 THEN TRUE ELSE req[r - 1].pc \in {"static2", "done"}
    /\ name \in DOMAIN pendingAssets
    /\ runs' = Append(runs, [canonical |-> name, by |-> r, outcome |-> "running",
                             fileThere |-> (FileAt(pendingAssets[name].path) # None)])
    /\ req' = [req EXCEPT ![r] = [IdleRequest EXCEPT
                  !.pc = "reading", !.url = pendingAssets[name].path,
                  !.entry = Some(pendingAssets[name]), !.idx = 1,
                  !.run = Len(runs) + 1]]
    /\ UNCHANGED <<frame, diskVars, managerVars, compilingNow, calls, nResolve>>

\* The assets the application defines: a bundle of two files, a bundle with
\* a dependency, a stylesheet to compile with a dependency, and a text file.
CompileCalls ==
    {<<BundleJs, Opts(Some(<<LibJs, MainJs>>), None, None)>>,
     <<BundleJs, Opts(Some(<<MainJs>>), Some(<<LibJs>>), None)>>,
     <<StyleLess, Opts(None, Some(<<LibJs>>), None)>>,
     <<StyleTxt, NoOptions>>}

InitCompile ==
    \E compressed \in BOOLEAN : \E wrapped \in BOOLEAN :
       /\ InitManager(AllSourceFiles, None, {}, FALSE)
       /\ PipelineOptions(compressed, wrapped)
       /\ NamingOptions(defaultAssetPrefix)

NextCompile ==
    \/ \E c \in CompileCalls : Resolve(c[1], c[2], FALSE)
    \/ \E r \in ReqIds : \E name \in DOMAIN pendingAssets : compileAsset(r, name)
    \/ \E r \in ReqIds :
          \/ ReadFile(r)
          \/ ReadFileError(r)
          \/ CompilerDone(r)
          \/ CompilerError(r)
          \/ CompressDone(r)
          \/ CompressError(r)
          \/ WriteOpen(r)
          \/ WriteDone(r)
    \/ \E f \in Removable : RemoveSource(f)

CompileSpec == InitCompile /\ [][NextCompile]_vars


\* The output file compileAsset is to write for a stored entry: every
\* constituent in list order, compiled when a compiler is registered for
\* its extension, wrapped and compressed as the options and the extension
\* of the output say.
ExpectedOutput(entry) ==
    [complete |-> TRUE,
     wrapped |-> (extname(entry.path) = ".js" /\ wrapJavascript),
     compressed |-> (compress /\ extname(entry.path) \in compressors),
     contents |-> [i \in 1..Len(entry.assets) |->
                     [name |-> entry.assets[i].name,
                      text |-> InitialContent(entry.assets[i].name),
                      compiled |-> extname(entry.assets[i].name) \in DOMAIN compilers]]]

\* C26: a successful compileAsset writes, to the output path of the entry,
\* the texts of the constituents in list order, each compiled iff a compiler
\* is registered for its extension, joined, wrapped iff the output is a .js
\* file and wrapJavascript is set, and then compressed iff compress is set
\* and a compressor covers the output extension; the text handed to the
\* compressor is the wrapped one.
C26_OutputIsThePipelineOfItsConstituents ==
    [][\A r \in ReqIds :
          /\ WriteDone(r) => built'[OutputFile(r)] = ExpectedOutput(req[r].entry[1])
          /\ CompressDone(r) =>
                /\ req[r].wrapped = ExpectedOutput(req[r].entry[1]).wrapped
                /\ req[r].contents = ExpectedOutput(req[r].entry[1]).contents]_vars

\* A bundle of two files was written wrapped and compressed, and a file
\* with no compressor for its extension was written while compress is set.
C26_Witness ==
    /\ compress
    /\ wrapJavascript
    /\ \E f \in DOMAIN built :
          /\ built[f].complete
          /\ Len(built[f].contents) = 2
          /\ built[f].wrapped
          /\ built[f].compressed
    /\ \E f \in DOMAIN built :
          /\ built[f].complete
          /\ ~built[f].wrapped
          /\ ~built[f].compressed


\* The file or asset a step of the pipeline of request r is working on.
Offender(r) ==
    IF req[r].pc = "compressing" THEN req[r].entry[1].path ELSE Constituent(r).name

\* C27: a failure to read or to compile a constituent, or to compress the
\* joined text, ends the pipeline at that step: the callback gets one error
\* that names the file (the asset, for the compressor), the constituents
\* collected are those before the failing one, no further step is taken and
\* nothing is written; and a write is issued only after every constituent
\* was read and compiled and the compressor, when one applies, has finished.
C27_FailureStopsThePipelineBeforeTheWrite ==
    [][\A r \in ReqIds :
          /\ (ReadFileError(r) \/ CompilerError(r) \/ CompressError(r)) =>
                /\ req'[r].pc = "done"
                /\ Len(req'[r].err) = 2
                /\ req'[r].err[1] \in {"Failed to read file", "Failed to compile file",
                                       "Failed to compress asset"}
                /\ req'[r].err[2] = Offender(r)
                /\ req'[r].contents = req[r].contents
                /\ req[r].pc # "compressing" => Len(req[r].contents) = req[r].idx - 1
                /\ ~req'[r].wrote
                /\ built' = built
                /\ runs'[req[r].run].outcome = "failed"
                /\ runs[req[r].run].outcome = "running"
          /\ (req[r].entry # None /\ req[r].pc = "done" /\ req[r].err # <<>>) =>
                req'[r] = req[r]
          /\ WriteOpen(r) =>
                /\ req[r].err = <<>>
                /\ Len(req[r].contents) = Len(req[r].entry[1].assets)
                /\ req[r].compressed =
                      (compress /\ extname(req[r].entry[1].path) \in compressors)]_vars

\* A bundle whose second constituent could not be read after the first was
\* collected, with nothing written, and a compression that failed.
C27_Witness ==
    /\ \E r \in ReqIds :
          /\ req[r].pc = "done"
          /\ req[r].err # <<>>
          /\ req[r].err[1] = "Failed to read file"
          /\ Len(req[r].contents) = 1
          /\ OutputFile(r) \notin DOMAIN built
    /\ \E r \in ReqIds :
          /\ req[r].pc = "done"
          /\ req[r].err # <<>>
          /\ req[r].err[1] = "Failed to compress asset"

\* ------------------------------------------------------------ dependencies
\* A bundle that depends on lib.js, and one that depends on style.css, which
\* only a compiler could make of style.less.
DependencyCalls ==
    {<<BundleJs, Opts(Some(<<MainJs>>), Some(<<LibJs>>), None)>>,
     <<BundleJs, Opts(Some(<<MainJs>>), Some(<<StyleCss>>), None)>>}

\* The file other assets depend on.
Dependencies == {LibJs}

InitDependency == InitWith(SourceFiles, None, {})

NextDependency ==
    \/ \E c \in DependencyCalls : Resolve(c[1], c[2], TRUE)
    \/ \E f \in Dependencies : \E c \in NewContents : WriteSource(f, c, FALSE)
    \/ \E f \in Dependencies : Watch(f)
    \/ \E r \in ReqIds : \E name \in DOMAIN pendingAssets : compileAsset(r, name)
    \/ \E r \in ReqIds : ReadFile(r) \/ WriteOpen(r) \/ WriteDone(r)

DependencySpec == InitDependency /\ [][NextDependency]_vars

\* The names of the files whose contents a request has collected, in order.
PieceNames(r) == [i \in 1..Len(req[r].contents) |-> req[r].contents[i].name]

\* The names of the constituents of a stored entry, in order.
ConstituentNames(entry) == [i \in 1..Len(entry.assets) |-> entry.assets[i].key]

\* C25: the hashes of the dependencies are folded into the output hash after
\* the hashes of the constituents, so two resolutions of an asset that differ
\* only in the hash of a dependency return different paths; the pipeline
\* reads the constituents only, so no dependency is among the files it has
\* collected or written; and a dependency that is no key of the asset map
\* (though a compiler could produce it) makes the call return nothing and
\* emit "Failed to locate".
C25_DependenciesAreHashedNotCompiled ==
    /\ \A n \in 1..Len(calls) :
          /\ (calls[n].out # None) =>
                calls[n].out[1] =
                   OutputPath(calls[n].key,
                              Take(hashString(Hashes(calls[n]) \o DepHashes(calls[n])),
                                   hashLength))
          /\ (/\ calls[n].options.dependencies # None
              /\ \E d \in Range(calls[n].options.dependencies[1]) :
                    \A i \in 1..Len(calls[n].assets) : calls[n].assets[i].key # d) =>
                (/\ calls[n].out = None
                 /\ calls[n].error # <<>>
                 /\ calls[n].error[1] = "Failed to locate")
    /\ (/\ TwoResolved
        /\ SameAsset
        /\ Hashes(calls[1]) = Hashes(calls[2])
        /\ DepHashes(calls[1]) # DepHashes(calls[2])) =>
          calls[1].out # calls[2].out
    /\ \A r \in ReqIds :
          (req[r].entry # None) =>
             /\ \A i \in 1..Len(req[r].contents) :
                   PieceNames(r)[i] = ConstituentNames(req[r].entry[1])[i]
             /\ Len(req[r].contents) <= Len(req[r].entry[1].assets)
    /\ \A f \in DOMAIN built :
          \A i \in 1..Len(built[f].contents) : built[f].contents[i].name \notin Dependencies

\* Two resolutions of bundle.js that differ in the hash of lib.js, its
\* dependency, and a finished compilation of the bundle.
C25_Witness ==
    /\ TwoResolved
    /\ SameAsset
    /\ DepHashes(calls[1]) # DepHashes(calls[2])
    /\ calls[1].out # calls[2].out
    /\ \E r \in ReqIds :
          /\ req[r].wrote
          /\ req[r].entry # None
          /\ req[r].entry[1].dependencies # <<>>
    /\ built # << >>

\* ---------------------------------------------------------------- watching
\* The files under a directory of the asset root.
Under(d) == {f \in DOMAIN files : Dirname(f) = d}

\* The environment removes a file of a watched directory.
RemoveWatched(f) ==
    /\ f \in DOMAIN files
    /\ hist.edits < MaxEdits
    /\ files' = [g \in DOMAIN files \ {f} |-> files[g]]
    /\ hist' = [hist EXCEPT !.edits = @ + 1, !.notices = @ \cup {f}]
    /\ UNCHANGED <<built, unlinks, manifest, managerVars, compilingNow, req, calls, runs,
                   nResolve, optionVars>>

\* The environment moves a directory out of the asset root, with the files
\* under it, and may put an empty directory of the same name in its place.
\* The watcher of the parent directory is notified of the name of the
\* directory; nothing is notified for the files.
RemoveDirectory(d, replaced) ==
    /\ d \in hist.dirs
    /\ hist.edits < MaxEdits
    /\ files' = [g \in DOMAIN files \ Under(d) |-> files[g]]
    /\ hist' = [hist EXCEPT !.edits = @ + 1, !.notices = @ \cup {d},
                            !.dirs = IF replaced THEN @ ELSE @ \ {d}]
    /\ UNCHANGED <<built, unlinks, manifest, managerVars, compilingNow, req, calls, runs,
                   nResolve, optionVars>>

\* The names the watchers report.
Notified == {MainJs, VendorJs, VendorDir, StaleMainJs}

InitWatch == InitWith(TreeFiles, None, {})

NextWatch ==
    \/ \E f \in Notified : Watch(f)
    \/ \E f \in {MainJs, VendorJs} : \E c \in NewContents : WriteSource(f, c, FALSE)
    \/ \E f \in {MainJs, VendorJs} : Touch(f)
    \/ \E f \in {MainJs, VendorJs} : RemoveWatched(f)
    \/ \E replaced \in BOOLEAN : RemoveDirectory(VendorDir, replaced)
    \/ Protect
    \/ Output(StaleMainJs)

WatchSpec == InitWatch /\ [][NextWatch]_vars

\* The records the asset map holds for a file.
RecordsOf(assetSeq, f) == {i \in 1..Len(assetSeq) : assetSeq[i].key = toLowerCase(f)}

\* C31: the handler of a notification that is not ignored leaves, for a
\* name that is a file on disk, one record with the modification time of
\* the file and the hash of its bytes; for every name it writes the manifest
\* of the asset map it leaves and emits, after that, one 'change' event that
\* names the file.
C31_WatchRefreshesPersistsAndNotifies ==
    [][\A f \in Notified :
          (Watch(f) /\ ~Ignored(f)) =>
             /\ f \in DOMAIN files =>
                   /\ Cardinality(RecordsOf(assets', f)) = 1
                   /\ \A i \in RecordsOf(assets', f) :
                         /\ assets'[i].mtime = files[f].mtime
                         /\ assets'[i].hash = hashFile(files[f].content)
             /\ manifest' = ManifestOf(assets')
             /\ hist'.last.wrote
             /\ hist'.last.change = Some(f)
             /\ Len(hist'.effects) >= 2
             /\ SubSeq(hist'.effects, Len(hist'.effects) - 1, Len(hist'.effects))
                   = <<"manifest", "change">>
             /\ Cardinality({i \in 1..Len(hist'.effects) : hist'.effects[i] = "change"})
                   = 1]_vars

\* The handler has run for main.js after its bytes were replaced: the map
\* has the new modification time and the hash of the new bytes.
C31_Witness ==
    /\ hist.last.op = "watch"
    /\ hist.last.change = Some(MainJs)
    /\ MainJs \in DOMAIN files
    /\ files[MainJs].content # InitialContent(MainJs)
    /\ \E i \in 1..Len(assets) :
          /\ assets[i].key = MainJs
          /\ assets[i].mtime = files[MainJs].mtime
          /\ assets[i].hash = hashFile(files[MainJs].content)
          /\ assets[i].hash # hashFile(InitialContent(MainJs))
    /\ hist.effects = <<"manifest", "change">>

\* C32: when the handler has run for a name under which nothing, or a
\* directory, is on disk, every record of the asset map is the record of a
\* file on disk (or of a file whose own notification is still to be
\* handled).
C32_NoRecordOfAVanishedFile ==
    [][\A f \in Notified :
          (Watch(f) /\ ~Ignored(f) /\ f \notin DOMAIN files) =>
             \A i \in 1..Len(assets') :
                \/ assets'[i].key \in DOMAIN files
                \/ assets'[i].key \in hist'.notices]_vars

\* ----------------------------------------------------------------- registry
\* The assets resolved while outputs are written, stale outputs are removed
\* and the directory is indexed again.
RegistryCalls == {<<MainJs, NoOptions>>,
                  <<BundleJs, Opts(Some(<<MainJs, LibJs>>), None, None)>>}

NextRegistry ==
    \/ \E c \in RegistryCalls : Resolve(c[1], c[2], TRUE)
    \/ Rescan
    \/ \E r \in ReqIds : \E name \in DOMAIN pendingAssets : compileAsset(r, name)
    \/ \E r \in ReqIds : ReadFile(r)
    \/ \E r \in ReqIds : WriteOpen(r)
    \/ \E r \in ReqIds : WriteDone(r)
    \/ \E f \in DOMAIN built : Unlink(f)

RegistrySpec == Init /\ [][NextRegistry]_vars

\* The call a step of assetPath has entered in the log.
Resolving == nResolve' = nResolve + 1

Logged == calls'[Len(calls')]

\* C33: a call of assetPath that returns a path leaves, in the list the
\* registry has for the identifier, no file but the one at the returned
\* path; every other file the list had is handed to fs.unlink, and the file
\* at the returned path is not.
C33_OnlyTheCurrentOutputStaysListed ==
    [][(Resolving /\ Logged.out # None) =>
          LET current == UnderRoot(Logged.out[1])
              before == IF Logged.key \in DOMAIN compiledAssets
                        THEN compiledAssets[Logged.key] ELSE <<>>
          IN  /\ Logged.key \in DOMAIN compiledAssets' =>
                    \A f \in Range(compiledAssets'[Logged.key]) : f = current
              /\ \A f \in Range(before) : f # current => f \in unlinks'
              /\ current \notin unlinks' \ unlinks
              /\ current \in Range(before) =>
                    current \in Range(compiledAssets'[Logged.key])]_vars

\* main.js was resolved when the registry listed its current output, found
\* by indexing the directory again, next to a stale one: the current one is
\* still listed and the stale one is to be deleted.
C33_Witness ==
    /\ Len(calls) >= 1
    /\ calls[Len(calls)].out # None
    /\ calls[Len(calls)].key = MainJs
    /\ MainJs \in DOMAIN compiledAssets
    /\ compiledAssets[MainJs] # <<>>
    /\ \A f \in Range(compiledAssets[MainJs]) : f = UnderRoot(calls[Len(calls)].out[1])
    /\ StaleMainJs \in unlinks

\* The hashed output files of a canonical name that are on disk.
Present(c) == {f \in DOMAIN built : isCompiledAsset(f) /\ getCanonicalPath(f) = c}

CanonicalNames == DOMAIN compiledAssets \cup {getCanonicalPath(f) : f \in DOMAIN built}

Listed(c) == IF c \in DOMAIN compiledAssets THEN compiledAssets[c] ELSE <<>>

\* No compilation is under way and no deletion is still to be carried out.
Settled ==
    /\ unlinks \cap DOMAIN built = {}
    /\ \A r \in ReqIds : req[r].pc \in {"idle", "static2", "done"}

\* C34: whenever no compilation and no deletion is under way, the registry
\* lists for every canonical name the hashed output files of that name that
\* are on disk, each once, and no other file.
C34_RegistryListsThePresentOutputs ==
    Settled =>
       \A c \in CanonicalNames :
          /\ Range(Listed(c)) = Present(c)
          /\ Cardinality(Range(Listed(c))) = Len(Listed(c))

\* -------------------------------------------------------------- output paths
\* The prefixes the application configures: the default one and 'my-asset'.
AssetPrefixes == {defaultAssetPrefix, << <<"my">>, <<"asset">> >>}

\* An identifier with a dash in its name.
MyBundleJs == Rel("", << <<"my">>, <<"bundle", ".js">> >>)

PathCalls == {<<MainJs, NoOptions>>,
              <<VendorJs, NoOptions>>,
              <<MyBundleJs, Opts(Some(<<MainJs, LibJs>>), None, None)>>}

InitPath ==
    \E prefix \in AssetPrefixes :
       /\ InitManager(TreeFiles, None, {}, FALSE)
       /\ PipelineOptions(FALSE, FALSE)
       /\ NamingOptions(prefix)

\* The application resolves its assets and clients ask for the paths it
\* was given.
NextPath ==
    \/ \E c \in PathCalls : Resolve(c[1], c[2], TRUE)
    \/ \E r \in ReqIds : \E k \in DOMAIN pendingAssets : Issue(r, pendingAssets[k].path)
    \/ \E r \in ReqIds :
          \/ StaticLookup(r)
          \/ StaticServe(r)
          \/ PassOn(r)
          \/ StartCompile(r)
          \/ Enqueue(r)
          \/ ReadFile(r)
          \/ WriteOpen(r)
          \/ WriteDone(r)
          \/ StaticAgain(r)

PathSpec == InitPath /\ [][NextPath]_vars

\* The path has the form dirname(identifier)/{assetPrefix}-{hash}-{basename}
\* under the serve prefix "/".
HasOutputForm(path, identifier) ==
    LET k == Len(assetPrefix)
    IN  /\ path.abs
        /\ path.dir = identifier.dir
        /\ Len(path.base) = k + 1 + Len(identifier.base)
        /\ SubSeq(path.base, 1, k) = assetPrefix
        /\ IsHexSeg(path.base[k + 1])
        /\ Len(path.base[k + 1]) <= hashLength
        /\ Drop(path.base, k + 1) = identifier.base

\* C35: a path assetPath returns has the form of an output path of the
\* identifier, is recognised by isCompiledAsset, and getCanonicalPath takes
\* it back to the identifier, under which the pending entry is found; a
\* request for the path of a pending entry is not answered with 404.
C35_ReturnedPathLeadsBackToTheIdentifier ==
    /\ \A n \in 1..Len(calls) :
          (calls[n].out # None) =>
             /\ HasOutputForm(calls[n].out[1], calls[n].key)
             /\ isCompiledAsset(calls[n].out[1])
             /\ Slice1(getCanonicalPath(calls[n].out[1])) = calls[n].key
             /\ calls[n].key \in DOMAIN pendingAssets
    /\ \A r \in ReqIds :
          (/\ req[r].pc = "done"
           /\ \E k \in DOMAIN pendingAssets : pendingAssets[k].path = req[r].url) =>
             req[r].status = 200

\* --------------------------------------------------------------- letter case
\* main.js as the views spell it, with and without attributes for its tag.
CaseIdentifiers == {MainJs, MainJsUpper}

CaseOptions == {NoOptions, Opts(None, None, Some(IdFoo)), Opts(None, None, Some(ClassBar))}

NextCase ==
    \/ \E id \in CaseIdentifiers : \E o \in CaseOptions : asset(id, o)
    \/ \E id \in CaseIdentifiers : \E o \in CaseOptions : assetUrl(id, o)
    \/ \E id \in CaseIdentifiers : \E o \in CaseOptions : Resolve(id, o, TRUE)

CaseSpec == InitTag /\ [][NextCase]_vars

\* The entry a call has left under the lowercased identifier.
EntryLeft(call) == pendingAssets'[RemapIdentifier(toLowerCase(call.identifier))]

\* C36: every key of pendingAssets is in lower case; two successive calls
\* for identifiers that differ in letter case only, the second of which
\* leaves the entries as they are, return the same path; and the tag asset()
\* returns carries the attributes of the merged options the entry has after
\* the call, however the identifier was spelled.
C36_LetterCaseMakesNoDifference ==
    [][Resolving =>
          /\ \A k \in DOMAIN pendingAssets' : toLowerCase(k) = k
          /\ (/\ Len(calls') = 2
              /\ toLowerCase(calls'[1].identifier) = toLowerCase(calls'[2].identifier)
              /\ pendingAssets' = pendingAssets) =>
                calls'[1].out = calls'[2].out
          /\ (/\ "api" \in DOMAIN Logged
              /\ Logged.api = "asset"
              /\ Logged.html # None) =>
                Logged.html[1].attributes =
                   (IF EntryLeft(Logged).options.attributes = None THEN <<>>
                    ELSE EntryLeft(Logged).options.attributes[1])]_vars

\* C37: a call of assetPath that returns nothing leaves the pending entries,
\* the registry of compiled files, the deletions issued and the files on disk
\* as they were; and no step removes a pending entry, or changes one unless
\* it is a call of assetPath.
C37_FailedResolveChangesNothing ==
    [][/\ (Resolving /\ Logged.out = None) =>
             /\ pendingAssets' = pendingAssets
             /\ compiledAssets' = compiledAssets
             /\ unlinks' = unlinks
             /\ files' = files
             /\ built' = built
       /\ \A k \in DOMAIN pendingAssets :
             /\ k \in DOMAIN pendingAssets'
             /\ ~Resolving => pendingAssets'[k] = pendingAssets[k]]_vars

\* bundle.js was defined, and a later call for it failed for a dependency
\* that is missing: the entry is the one the first call stored.
C37_Witness ==
    /\ Len(calls) = 2
    /\ calls[1].out # None
    /\ calls[2].out = None
    /\ calls[2].error # <<>>
    /\ calls[1].key = calls[2].key
    /\ calls[2].key \in DOMAIN pendingAssets
    /\ pendingAssets[calls[2].key] = calls[1].entry[1]
    /\ pendingAssets[calls[2].key].path = calls[1].out[1]

\* ------------------------------------------------------- content addressing
\* main.js is resolved, changed on disk, with and without the watch handler
\* running for it, and compiled.
NextAddress ==
    \/ Resolve(MainJs, NoOptions, FALSE)
    \/ \E c \in NewContents : WriteSource(MainJs, c, FALSE)
    \/ Watch(MainJs)
    \/ \E r \in ReqIds : \E name \in DOMAIN pendingAssets : compileAsset(r, name)
    \/ \E r \in ReqIds : ReadFile(r)
    \/ \E r \in ReqIds : WriteOpen(r)
    \/ \E r \in ReqIds : WriteDone(r)

AddressSpec == InitHash /\ [][NextAddress]_vars

\* The hash in the name of an output file.
HashInName(f) == f.base[Len(assetPrefix) + 1]

\* The output hash of the texts an output file was made of.
HashOfPieces(pieces) ==
    Take(hashString([i \in 1..Len(pieces) |-> hashFile(pieces[i].text)]), hashLength)

\* C38: the hash in the name of every output file the pipeline has written
\* is the output hash of the bytes that were read to make it.
C38_OutputNameHashesItsContent ==
    \A f \in DOMAIN built :
       built[f].complete => HashInName(f) = HashOfPieces(built[f].contents)

\* --------------------------------------------------------------- definitions
\* bundle.js defined as main.js and lib.js, and as main.js with lib.js as a
\* dependency.
DefinitionCalls == {<<BundleJs, Opts(Some(<<MainJs, LibJs>>), None, None)>>,
                    <<BundleJs, Opts(Some(<<MainJs>>), Some(<<LibJs>>), None)>>,
                    <<BundleJs, Opts(Some(<<LibJs, MainJs>>), None, None)>>}

NextDefinition ==
    \/ \E c \in DefinitionCalls : Resolve(c[1], c[2], TRUE)
    \/ \E r \in ReqIds : \E name \in DOMAIN pendingAssets : compileAsset(r, name)
    \/ \E r \in ReqIds : ReadFile(r)
    \/ \E r \in ReqIds : WriteOpen(r)
    \/ \E r \in ReqIds : WriteDone(r)

DefinitionSpec == InitHash /\ [][NextDefinition]_vars

\* C39: two calls of assetPath for one identifier that return the same path
\* have stored the same constituents in the same order, and an output file
\* that is at the path of a pending entry is made of the constituents of the
\* entry.
C39_SamePathSameConstituents ==
    /\ (/\ TwoResolved
        /\ calls[1].key = calls[2].key
        /\ calls[1].out = calls[2].out) =>
          Names(calls[1]) = Names(calls[2])
    /\ \A k \in DOMAIN pendingAssets :
          LET f == UnderRoot(pendingAssets[k].path)
          IN  (f \in DOMAIN built /\ built[f].complete) =>
                 [i \in 1..Len(built[f].contents) |-> built[f].contents[i].name]
                    = ConstituentNames(pendingAssets[k])

\* ------------------------------------------------- the reverse compiler index
\* The source extensions listed under output extension y (the extname of
\* the compilers in reverseCompilerIndex[y], lines 396-405 and 1013-1021).
ListedUnder(y) ==
    IF y \in DOMAIN reverseCompilerIndex
    THEN [i \in 1..Len(reverseCompilerIndex[y]) |-> reverseCompilerIndex[y][i].extname]
    ELSE <<>>

\* C40: after the construction and any registerCompiler calls, a compiler
\* for source extension x is listed under output extension y exactly when
\* the compiler now registered for x declares the output y, and no source
\* extension is listed twice under one output extension.
C40_ReverseIndexMatchesTheRegistry ==
    LET outputs == DOMAIN reverseCompilerIndex \cup
                     {compilers[x].output : x \in DOMAIN compilers}
        inputs  == DOMAIN compilers \cup
                     UNION {Range(ListedUnder(y)) : y \in DOMAIN reverseCompilerIndex}
    IN  /\ \A x \in inputs, y \in outputs :
              (x \in Range(ListedUnder(y))) <=>
                 (x \in DOMAIN compilers /\ compilers[x].output = y)
        /\ \A y \in outputs : \A i, j \in DOMAIN ListedUnder(y) :
              ListedUnder(y)[i] = ListedUnder(y)[j] => i = j

====
